---------------------------- MODULE Spec2Model ----------------------------
(***************************************************************************)
(* A model of SynapticLlamas: the node registry (node_registry.py), the    *)
(* nodes (ollama_node.py), the SOLLOL load balancer                        *)
(* (sollol_load_balancer.py), the agent call (agents/base_agent.py) and    *)
(* the TrustCall validator (trustcall.py).                                 *)
(*                                                                         *)
(* One module holds several specifications, each over the same variables:  *)
(*   SpecAddNode   the registry driven by add_node alone                   *)
(*   SpecRegistry  add_node, CIDR discovery, remove_node, load_config      *)
(*   Spec          routing and one agent's call_ollama, with health probes *)
(*   SpecMetrics   concurrent outcome recordings on one node               *)
(*   SpecTrustCall validate_and_repair                                     *)
(* A specification leaves the variables of the other components at their   *)
(* initial values.                                                          *)
(***************************************************************************)
EXTENDS Integers, Sequences, FiniteSets, TLC

(***************************************************************************)
(* URLs.  A URL is the sequence of its lexical pieces, so that the string  *)
(* operations of the code (split on "://", split on ":", rstrip("/")) are  *)
(* modelled by what they do to the text.                                   *)
(***************************************************************************)
UrlLocalhost == <<"http", "://", "localhost", ":", "11434">>
UrlLoopback  == <<"http", "://", "127.0.0.1", ":", "11434">>
UrlB         == <<"http", "://", "10.0.0.2", ":", "11434">>
\* no port, trailing slash: "http://localhost/"
UrlSlash     == <<"http", "://", "localhost", "/">>
\* no scheme: "localhost:11434"
UrlBare      == <<"localhost", ":", "11434">>

\* The URLs add_node, remove_node and load_config are called with.
Urls == {UrlLocalhost, UrlLoopback, UrlSlash, UrlBare}

\* The URLs add_node is called with where add_node is the only operation.
AddUrls == Urls \cup {UrlB}

\* The URLs a saved configuration file names.
ConfigUrls == {UrlLocalhost, UrlLoopback}

\* The name service: socket.gethostbyname on a host name (stable over a run).
DnsTable ==
    [h \in {"localhost", "127.0.0.1", "127.0.0.2", "10.0.0.2", "10.0.0.3"} |->
        IF h = "localhost" THEN "127.0.0.1" ELSE h]

NoUrl == <<>>

VARIABLES
    nodes,            \* NodeRegistry.nodes: its keys (URLs) in insertion order
    ip_cache,         \* NodeRegistry._ip_cache: host name -> IP
    metrics,          \* OllamaNode.metrics (NodeMetrics), per node URL
    last_result,      \* what the last registry call returned
    scan,             \* discover_nodes: the IPs whose _probe_ip has not run yet
    load_queue        \* load_config: the node configs still to be added

VARIABLES
    pc,               \* call_ollama: "idle", "post" (first POST sent), "retry", "done"
    routing_decision, \* call_ollama: routing_decision (NoDecision for None)
    request_url,      \* call_ollama: url, the URL the request goes to, without /api/generate
    payload_format,   \* call_ollama: whether payload holds "format"
    force_json,       \* call_ollama: its force_json argument
    result,           \* call_ollama: what it returned
    route_raised,     \* call_ollama: route_request raised for this call
    http_log,         \* the generation POSTs this call has sent, in order, each with
                      \* what it follows (repair POSTs go to the same url)
    calls,            \* client operations started so far
    memory_history,   \* PerformanceMemory.history: one entry per record_execution
    at_start,         \* history: the performance records and metrics when the current call began
    failed_unprobed,  \* history: nodes whose inference failed, no probe has succeeded since
    returned          \* what the last routing call returned, and the health it saw

registryVars == <<nodes, ip_cache, metrics, last_result, scan, load_queue>>

agentVars == <<pc, routing_decision, request_url, payload_format, force_json, result,
               route_raised, http_log, calls, memory_history, at_start, failed_unprobed,
               returned>>

VARIABLES
    threads,            \* concurrent recordings on one node: each thread's position,
                        \* the recording it runs, and the counter value it has loaded
    last_request_times  \* OllamaNode._last_request_times of that node

threadVars == <<threads, last_request_times>>

VARIABLES
    raw_output,    \* validate_and_repair: the model's text, as tokens
    tc_pc,         \* validate_and_repair: "start", "repair" (awaiting repair_fn), "returned"
    current_json,  \* validate_and_repair: current_json
    repair_attempt, \* validate_and_repair: attempt, the repair attempt under way
    tc_result      \* validate_and_repair: what it returned

trustVars == <<raw_output, tc_pc, current_json, repair_attempt, tc_result>>

VARIABLES
    par_pc,        \* a parallel execution: "idle", "running", "merged", "raised"
    par_mode,      \* the mode it runs in: "same_node" or "multi_node"
    futures,       \* per submitted agent: "pending", "returned", "failed" (process
                   \* raised), or "collected" once as_completed has yielded it
    json_outputs   \* json_outputs, each entry with the agent whose future it is from

parallelVars == <<par_pc, par_mode, futures, json_outputs>>

VARIABLES
    nar_pc,        \* _extract_narrative_from_json: "idle" or "done"
    nar_content,   \* its argument
    nar_result     \* the string it returned

narrativeVars == <<nar_pc, nar_content, nar_result>>

VARIABLES
    lf_pc,            \* run_longform: "idle", "generating", "synthesizing", "done"
    lf_mode,          \* "parallel" or "sequential"
    content_type,     \* the content type of the run
    chunks,           \* per chunk 1..chunks_needed: state, focus of its prompt, content
    synthesis_result, \* what the synthesis agent returned
    final_output      \* result['final_output']

longformVars == <<lf_pc, lf_mode, content_type, chunks, synthesis_result, final_output>>

VARIABLES
    enable_distributed, \* HybridRouter.enable_distributed
    llamacpp_clusters,  \* whether HybridRouter.llamacpp_clusters holds a cluster
    ollama_pool,        \* whether HybridRouter.ollama_pool is set
    free_gpu_memory,    \* the most free GPU memory of a single Ollama node, in 0.1 GB
    hr_model,           \* the model of the last HybridRouter.route_request
    hr_result,          \* where it went: "ollama", "llamacpp", or "RuntimeError"
    llamacpp_cluster_keys, \* the keys of HybridRouter.llamacpp_clusters, in dict order
    hr_cluster          \* the key of the cluster _get_cluster_for_model chose, or <<>>

hybridVars == <<enable_distributed, llamacpp_clusters, ollama_pool, free_gpu_memory,
                hr_model, hr_result, llamacpp_cluster_keys, hr_cluster>>

VARIABLES
    clusters,        \* NodeRegistry.clusters: name -> the URLs of the cluster's nodes
    cluster_result   \* what the last create_cluster did: "created" or "ValueError"

clusterVars == <<clusters, cluster_result>>

VARIABLES
    lat_path,        \* the path that recorded the last latency sample
    lat_sample       \* the sample it recorded, in units of 0.1 ms

latencyVars == <<lat_path, lat_sample>>

VARIABLES
    log_queue,         \* dashboard_server.log_queue: the formatted records not yet streamed
    global_publisher,  \* whether _global_publisher is a RedisLogPublisher (not None)
    pub_enabled,       \* RedisLogPublisher.enabled
    is_connected,      \* RedisLogPublisher.is_connected
    total_published,   \* RedisLogPublisher.total_published
    failed_publishes,  \* RedisLogPublisher.failed_publishes
    pub_result,        \* what the last publish call returned: "none", "True", "False"
    pub_sleeps,        \* the time.sleep(retry_delay) calls made inside the last publish call
    pub_backend,       \* whether Redis answered at any point of the last publish call
    pub_channels       \* the channels the last publish call published to

eventVars == <<log_queue, global_publisher, pub_enabled, is_connected, total_published, failed_publishes,
               pub_result, pub_sleeps, pub_backend, pub_channels>>

VARIABLES
    global_pool,        \* pool._global_pool: 0 for None, else the number of the instance
    pool_lock,          \* pool._pool_lock: 0 when free, else the caller holding it
    pools_constructed,  \* the OllamaPool instances constructed so far
    get_pool_calls,     \* per caller of get_pool: where it stands, what it read and got
    pool_nodes,         \* OllamaPool.nodes
    current_index,      \* OllamaPool._current_index
    stats,              \* OllamaPool.stats
    requests_in_flight  \* per request thread: where _make_request stands

poolVars == <<global_pool, pool_lock, pools_constructed, get_pool_calls, pool_nodes,
              current_index, stats, requests_in_flight>>

VARIABLES
    sj_agent,     \* the agent_name of the last standardize_to_json call
    sj_raw,       \* its raw_output
    sj_output     \* what it returned

pipelineVars == <<sj_agent, sj_raw, sj_output>>

VARIABLES
    exec_mode,         \* the execution mode of the last run: strategy['mode']
    exec_use_sollol,   \* DistributedOrchestrator.use_sollol in that run
    gpu_nodes,         \* what registry.get_gpu_nodes() answered in that run
    agent_sent_to,     \* per agent: the node its call_ollama posted the request to
    node_attribution   \* per agent: the node named in metrics['node_attribution']

attributionVars == <<exec_mode, exec_use_sollol, gpu_nodes, agent_sent_to, node_attribution>>

VARIABLES
    registry_lock,   \* NodeRegistry._lock: 0 when free, else the thread holding it
    registry_calls   \* per thread: the registry call it is in and where it stands

lockVars == <<registry_lock, registry_calls>>

otherVars == <<pipelineVars, attributionVars, lockVars>>

orchestratorVars == <<parallelVars, narrativeVars, longformVars, hybridVars, clusterVars,
                      latencyVars, eventVars, poolVars, otherVars>>

vars == <<registryVars, agentVars, threadVars, trustVars, orchestratorVars>>

Range(s) == {s[i] : i \in 1..Len(s)}

\* The index of the first occurrence of tok in s, 0 when there is none.
IndexOf(s, tok) ==
    IF \E i \in 1..Len(s) : s[i] = tok
    THEN CHOOSE i \in 1..Len(s) : s[i] = tok /\ \A j \in 1..(i-1) : s[j] # tok
    ELSE 0

\* s.split(tok)[0]
BeforeFirst(s, tok) ==
    IF IndexOf(s, tok) = 0 THEN s ELSE SubSeq(s, 1, IndexOf(s, tok) - 1)

\* what follows the first tok in s
AfterFirst(s, tok) == SubSeq(s, IndexOf(s, tok) + 1, Len(s))

\* The host name _resolve_host_ip extracts:
\*   url.split('://')[1].split(':')[0]   or   url.split(':')[0]
ExtractHostname(url) ==
    IF IndexOf(url, "://") # 0
    THEN BeforeFirst(BeforeFirst(AfterFirst(url, "://"), "://"), ":")
    ELSE BeforeFirst(url, ":")

\* socket.gethostbyname succeeds on a text that is exactly a known host name.
Resolvable(hostname) == Len(hostname) = 1 /\ hostname[1] \in DOMAIN DnsTable

\* _resolve_host_ip: [ip |-> the IP, or the URL itself when resolution fails,
\*                    cache |-> _ip_cache afterwards]
ResolveHostIp(url, cache) ==
    LET hostname == ExtractHostname(url) IN
    IF hostname \in DOMAIN cache
    THEN [ip |-> <<cache[hostname]>>, cache |-> cache]
    ELSE IF Resolvable(hostname)
         THEN [ip |-> <<DnsTable[hostname[1]]>>,
               cache |-> [h \in DOMAIN cache \cup {hostname} |->
                            IF h = hostname THEN DnsTable[hostname[1]] ELSE cache[h]]]
         ELSE [ip |-> url, cache |-> cache]

\* The loop of _is_duplicate_node over the keys from index i on.
RECURSIVE DuplicateScan(_, _, _, _)
DuplicateScan(new_ip, keys, i, cache) ==
    IF i > Len(keys)
    THEN [dup |-> NoUrl, cache |-> cache]
    ELSE LET r == ResolveHostIp(keys[i], cache) IN
         IF new_ip = r.ip
         THEN [dup |-> keys[i], cache |-> r.cache]
         ELSE DuplicateScan(new_ip, keys, i + 1, r.cache)

\* _is_duplicate_node: the URL of the registered node with the same IP, or NoUrl.
IsDuplicateNode(url, keys, cache) ==
    LET r == ResolveHostIp(url, cache) IN
    DuplicateScan(r.ip, keys, 1, r.cache)

\* str.rstrip('/') as OllamaNode.__init__ applies it to its URL
RStripSlash(url) ==
    IF Len(url) > 0 /\ url[Len(url)] = "/" THEN SubSeq(url, 1, Len(url) - 1) ELSE url

\* Whether an HTTP request to the node's URL can be answered at all: requests
\* needs a scheme and a host that resolves.
CanReach(url) ==
    LET u == RStripSlash(url) IN
    /\ Len(u) >= 3
    /\ u[1] = "http" /\ u[2] = "://"
    /\ u[3] \in DOMAIN DnsTable

\* OllamaNode.health_check: True iff GET /api/tags answers 200 (up).
HealthCheckResult(url, up) == CanReach(url) /\ up

\* NodeMetrics(): the metrics of a node just constructed; avg_response_time is
\* kept in units of 0.1 ms.
NewMetrics ==
    [total_requests |-> 0, failed_requests |-> 0, avg_response_time |-> 0,
     is_healthy |-> TRUE]

\* m with the metrics of the node at url set to v (the node may be new)
WithNode(m, url, v) ==
    [u \in DOMAIN m \cup {url} |-> IF u = url THEN v ELSE m[u]]

\* The node is stored before its health check is looked at.
AfterFailedProbeStored(keys, url) == Append(keys, url)

\* self.nodes after a health check that failed: the node was never stored.
AfterFailedProbe(keys, url) == keys

\* NodeRegistry.add_node, the registry half of the state.
\* up: whether the server behind url answers the health check.
AddNodeEffect(url, up, keys, cache, healthy) ==
    IF url \in Range(keys)
    THEN [nodes |-> keys, cache |-> cache, healthy |-> healthy,
          result |-> [kind |-> "existing", url |-> url]]
    ELSE LET d == IsDuplicateNode(url, keys, cache) IN
         IF d.dup # NoUrl
         THEN [nodes |-> keys, cache |-> d.cache, healthy |-> healthy,
               result |-> [kind |-> "existing", url |-> d.dup]]
         ELSE IF HealthCheckResult(url, up)
              THEN [nodes |-> Append(keys, url), cache |-> d.cache,
                    healthy |-> WithNode(healthy, url, NewMetrics),
                    result |-> [kind |-> "added", url |-> url]]
              ELSE [nodes |-> AfterFailedProbe(keys, url), cache |-> d.cache,
                    healthy |-> healthy,
                    result |-> [kind |-> "unreachable", url |-> url]]

RegistryInit ==
    /\ nodes = <<>>
    /\ ip_cache = <<>>
    /\ metrics = <<>>
    /\ last_result = [kind |-> "none", url |-> NoUrl]
    /\ scan = {}
    /\ load_queue = <<>>

\* registry.add_node(url)
AddNode(url, up) ==
    LET e == AddNodeEffect(url, up, nodes, ip_cache, metrics) IN
    /\ nodes' = e.nodes
    /\ ip_cache' = e.cache
    /\ metrics' = e.healthy
    /\ last_result' = e.result
    /\ UNCHANGED <<scan, load_queue>>
    /\ UNCHANGED <<agentVars, threadVars, trustVars, orchestratorVars>>

\* registry.remove_node(url)
RemoveNode(url) ==
    /\ nodes' = SelectSeq(nodes, LAMBDA u : u # url)
    /\ metrics' = [u \in DOMAIN metrics \ {url} |-> metrics[u]]
    /\ last_result' = [kind |-> IF url \in Range(nodes) THEN "removed" ELSE "not_found",
                       url |-> url]
    /\ UNCHANGED <<ip_cache, scan, load_queue>>
    /\ UNCHANGED <<agentVars, threadVars, trustVars, orchestratorVars>>

\* _parse_cidr: the host addresses of a network (ipaddress.IPv4Network.hosts()),
\* the empty list for a text that is no CIDR.
ParseCidr(cidr) ==
    CASE cidr = "127.0.0.0/30" -> {"127.0.0.1", "127.0.0.2"}
      [] OTHER                 -> {}

Cidrs == {"127.0.0.0/30", "not-a-cidr"}

\* url = f"http://{ip}:{port}" in _probe_ip
ProbeUrl(ip) == <<"http", "://", ip, ":", "11434">>

\* discover_nodes: one _probe_ip per host address is submitted to the pool.
DiscoverNodes(cidr) ==
    /\ scan = {}
    /\ scan' = ParseCidr(cidr)
    /\ UNCHANGED <<nodes, ip_cache, metrics, last_result, load_queue>>
    /\ UNCHANGED <<agentVars, threadVars, trustVars, orchestratorVars>>

\* Whether _probe_ip inserts the node it found: the test made under the lock.
ProbeInserts(url, keys) == url \notin Range(keys)

\* _probe_ip(ip): TCP connect, health check, then the insert under the lock.
\* up: whether an Ollama server answers at the address.
ProbeIp(ip, up) ==
    /\ ip \in scan
    /\ scan' = scan \ {ip}
    /\ IF up /\ ProbeInserts(ProbeUrl(ip), nodes)
       THEN /\ nodes' = Append(nodes, ProbeUrl(ip))
            /\ metrics' = WithNode(metrics, ProbeUrl(ip), NewMetrics)
       ELSE UNCHANGED <<nodes, metrics>>
    /\ last_result' = [kind |-> IF up THEN "discovered" ELSE "no_server",
                       url |-> ProbeUrl(ip)]
    /\ UNCHANGED <<ip_cache, load_queue>>
    /\ UNCHANGED <<agentVars, threadVars, trustVars, orchestratorVars>>

\* The node lists a configuration file can hold: up to MaxConfigLen URLs.
MaxConfigLen == 2

ConfigFiles == UNION {[1..n -> ConfigUrls] : n \in 1..MaxConfigLen}

\* load_config(filepath): the file's node entries are read ...
LoadConfig(file) ==
    /\ load_queue = <<>>
    /\ load_queue' = file
    /\ UNCHANGED <<nodes, ip_cache, metrics, last_result, scan>>
    /\ UNCHANGED <<agentVars, threadVars, trustVars, orchestratorVars>>

\* ... and each is passed to add_node, whose error is logged and skipped.
LoadConfigStep(up) ==
    /\ load_queue # <<>>
    /\ LET e == AddNodeEffect(Head(load_queue), up, nodes, ip_cache, metrics) IN
       /\ nodes' = e.nodes
       /\ ip_cache' = e.cache
       /\ metrics' = e.healthy
       /\ last_result' = e.result
    /\ load_queue' = Tail(load_queue)
    /\ UNCHANGED scan
    /\ UNCHANGED <<agentVars, threadVars, trustVars, orchestratorVars>>


(***************************************************************************)
(* The load balancer and the agent call.                                   *)
(***************************************************************************)
NoDecision == [kind |-> "none", node |-> NoUrl, fallback_nodes |-> <<>>]

\* BaseAgent.ollama_url: where the agent sends its request without a decision
DefaultUrl == UrlLocalhost

\* The durations a request is measured to take: 0.2 s and 1 s, in units of 0.1 ms.
Durations == {2000, 10000}

\* The client operations (call_ollama, get_node, route_with_fallback) of a run.
MaxCalls == 2

\* route_with_fallback(max_retries=3)
MaxRetries == 3

\* NodeRegistry.get_healthy_nodes, without its filter
GetHealthyNodesUnfiltered(keys, m) == keys

\* NodeRegistry.get_healthy_nodes
GetHealthyNodes(keys, m) == SelectSeq(keys, LAMBDA u : m[u].is_healthy)

\* node.url of the node registered under key
NodeUrl(key) == RStripSlash(key)

\* calculate_load_score as an exact fraction.  Times are counted in units of
\* 0.1 ms, so that 10 s is 100000, and LoadNum / LoadDen is 200000 times the score:
\*   1.0 for an unhealthy node, else
\*   failed/total * 0.5 + min(avg_response_time / 10.0, 1.0) * 0.5
Min(a, b) == IF a <= b THEN a ELSE b

LoadNum(mt) ==
    IF ~mt.is_healthy THEN 200000
    ELSE IF mt.total_requests > 0
         THEN mt.failed_requests * 100000
              + Min(mt.avg_response_time, 100000) * mt.total_requests
         ELSE Min(mt.avg_response_time, 100000)

LoadDen(mt) ==
    IF mt.is_healthy /\ mt.total_requests > 0 THEN mt.total_requests ELSE 1

ScoreLess(a, b) == LoadNum(a) * LoadDen(b) < LoadNum(b) * LoadDen(a)

\* sorted(healthy_nodes, key=calculate_load_score)[0]: the sort is stable, so the
\* first of the least loaded nodes.
LeastLoaded(hs, m) ==
    hs[CHOOSE i \in 1..Len(hs) :
          /\ \A j \in 1..Len(hs) : ~ScoreLess(m[hs[j]], m[hs[i]])
          /\ \A j \in 1..(i-1) : ScoreLess(m[hs[i]], m[hs[j]])]

\* What stands for an exception raised while route_request prepares its decision.
RoutingRaises == <<"raise">>

\* IntelligentRouter.select_optimal_node, reached through _node_to_host_metadata:
\* it answers the URL of one of the hosts it is given or a URL that matches none
\* of them, or the preparation raises (the metadata reads metrics.avg_latency
\* and node.is_healthy, which the node of ollama_node.py does not define).
SelectOptimalNode(hosts) == Range(hosts) \cup {NoUrl, RoutingRaises}

\* _node_to_host_metadata(node)['url'] for every healthy node
HostUrls(healthy_nodes) == [i \in 1..Len(healthy_nodes) |-> NodeUrl(healthy_nodes[i])]

\* route_request: raises with no healthy node, else the decision.
RouteRequest(keys, m, selected_host) ==
    LET healthy_nodes == GetHealthyNodes(keys, m) IN
    IF healthy_nodes = <<>> \/ selected_host = RoutingRaises
    THEN [kind |-> "raised", node |-> NoUrl, fallback_nodes |-> <<>>]
    ELSE LET matched == SelectSeq(healthy_nodes, LAMBDA u : NodeUrl(u) = selected_host)
             selected_node == IF matched # <<>> THEN matched[1] ELSE healthy_nodes[1]
         IN  [kind |-> "node", node |-> selected_node,
              fallback_nodes |->
                  SelectSeq(healthy_nodes, LAMBDA u : NodeUrl(u) # NodeUrl(selected_node))]

\* The loop of route_with_fallback from attempt on (attempts count from 0): the
\* node the returned decision holds.
RECURSIVE FallbackLoop(_, _, _, _)
FallbackLoop(all_nodes, attempt, node, max_retries) ==
    IF attempt >= Len(all_nodes)
    THEN node
    ELSE LET n == IF attempt > 0 THEN all_nodes[attempt + 1] ELSE node IN
         IF attempt < max_retries
         THEN n
         ELSE FallbackLoop(all_nodes, attempt + 1, n, max_retries)

\* route_with_fallback
RouteWithFallback(keys, m, selected_host, max_retries) ==
    LET decision == RouteRequest(keys, m, selected_host) IN
    IF decision.kind = "raised"
    THEN decision
    ELSE [decision EXCEPT !.node =
            FallbackLoop(<<decision.node>> \o decision.fallback_nodes, 0,
                         decision.node, max_retries)]

\* get_node(payload): through route_request with a payload, else the least loaded
\* healthy node.
GetNodeResult(keys, m, with_payload, selected_host) ==
    IF with_payload
    THEN RouteRequest(keys, m, selected_host)
    ELSE LET healthy_nodes == GetHealthyNodes(keys, m) IN
         IF healthy_nodes = <<>>
         THEN [kind |-> "raised", node |-> NoUrl, fallback_nodes |-> <<>>]
         ELSE [kind |-> "node", node |-> LeastLoaded(healthy_nodes, m),
               fallback_nodes |-> <<>>]

\* The exponential moving average of record_performance (alpha = 0.3): exact on
\* the durations above for the first four records of a node.
EmaLatency(avg, d) == IF avg = 0 THEN d ELSE (3 * d + 7 * avg) \div 10

\* record_performance: the node's metrics afterwards
RecordedMetrics(mt, d, success) ==
    [mt EXCEPT !.total_requests = @ + 1,
               !.failed_requests = IF success THEN @ ELSE @ + 1,
               !.avg_response_time = EmaLatency(@, d)]

\* The registered nodes that are healthy, read off the metrics.
HealthyNow == {u \in Range(nodes) : metrics[u].is_healthy}

Returned(op, r) ==
    [op |-> op, kind |-> r.kind, node |-> r.node, fallback_nodes |-> r.fallback_nodes,
     healthy_then |-> HealthyNow]

(***************************************************************************)
(* JSON values and texts, for trustcall.                                    *)
(***************************************************************************)
\* The schema of an agent: the first two fields of Researcher.expected_schema.
ExpectedSchema == [key_facts |-> "list", context |-> "str"]

Fields == DOMAIN ExpectedSchema

\* What a field of an object holds: nothing, a list or a string.
FieldMaps == [Fields -> {"absent", "list", "str"}]

NoFields == [f \in Fields |-> "absent"]

\* A token of a text: a JSON object ("dict"), another JSON value ("array", not
\* empty, or "null"), braces around what is no JSON ("braces"), a markdown
\* fence ("fence") or other words ("prose").  None stands for Python's None.
Tok(kind) == [kind |-> kind, fields |-> NoFields]

JsonDict(f) == [kind |-> "dict", fields |-> f]

None == Tok("none")

\* standardize_to_json has not been called.
PipelineIdle ==
    /\ sj_agent = "none"
    /\ sj_raw = <<>>
    /\ sj_output = [format |-> "none", agent |-> "none", status |-> "none", data |-> <<>>,
                    content |-> <<>>]

\* No run has been executed.
AttributionIdle ==
    /\ exec_mode = "none"
    /\ exec_use_sollol = FALSE
    /\ gpu_nodes = <<>>
    /\ agent_sent_to = <<>>
    /\ node_attribution = <<>>

\* No thread is inside a call of the registry.
NoCall == [op |-> "none", pc |-> "idle", url |-> <<>>]

NumRegistryThreads == 2

RegistryThreads == 1..NumRegistryThreads

LockIdle ==
    /\ registry_lock = 0
    /\ registry_calls = [t \in RegistryThreads |-> NoCall]

NumCallers == 3

Callers == 1..NumCallers

\* The statistics of a new OllamaPool
NewStats == [total_requests |-> 0, successful_requests |-> 0, failed_requests |-> 0,
             nodes_used |-> <<>>]

\* No request of the thread is under way.
NoRequest == [pc |-> "idle", n |-> 0, attempt |-> 0, node |-> "none", tried |-> <<>>]

\* The module sollol.pool as imported: no pool yet, nobody has called get_pool.
PoolIdle ==
    /\ global_pool = 0
    /\ pool_lock = 0
    /\ pools_constructed = 0
    /\ get_pool_calls = [t \in Callers |-> [pc |-> "start", saw |-> 0, ret |-> 0]]
    /\ pool_nodes = <<>>
    /\ current_index = 0
    /\ stats = NewStats
    /\ requests_in_flight = [t \in Callers |-> NoRequest]

\* Nothing logged, and no publisher: RedisLogPublisher(enabled=False).
EventsIdle ==
    /\ log_queue = <<>>
    /\ global_publisher = FALSE
    /\ pub_enabled = FALSE
    /\ is_connected = FALSE
    /\ total_published = 0
    /\ failed_publishes = 0
    /\ pub_result = "none"
    /\ pub_sleeps = 0
    /\ pub_backend = FALSE
    /\ pub_channels = {}

\* NodeRegistry(): no cluster; no latency sample recorded.
ClustersIdle ==
    /\ clusters = <<>>
    /\ cluster_result = "none"
    /\ lat_path = "none"
    /\ lat_sample = 0
    /\ EventsIdle
    /\ PoolIdle
    /\ PipelineIdle
    /\ AttributionIdle
    /\ LockIdle

\* HybridRouter(None, None, False), not used yet.
HybridIdle ==
    /\ ClustersIdle
    /\ enable_distributed = FALSE
    /\ llamacpp_clusters = FALSE
    /\ ollama_pool = FALSE
    /\ free_gpu_memory = 0
    /\ hr_model = <<>>
    /\ hr_result = "none"
    /\ llamacpp_cluster_keys = <<>>
    /\ hr_cluster = <<>>

\* No parallel execution has begun.
OrchestratorIdle ==
    /\ par_pc = "idle"
    /\ par_mode = "none"
    /\ futures = <<>>
    /\ json_outputs = <<>>
    /\ nar_pc = "idle"
    /\ nar_content = [type |-> "none", items |-> <<>>]
    /\ nar_result = <<>>
    /\ lf_pc = "idle"
    /\ lf_mode = "none"
    /\ content_type = "none"
    /\ chunks = <<>>
    /\ synthesis_result = <<>>
    /\ final_output = <<>>
    /\ HybridIdle

\* validate_and_repair is not running.
TrustIdle ==
    /\ raw_output = <<>>
    /\ tc_pc = "idle"
    /\ current_json = None
    /\ repair_attempt = 0
    /\ tc_result = [kind |-> "none", value |-> None]

\* The threads that record concurrently on one node.
NumThreads == 2

Threads == 1..NumThreads

\* No recording has begun.
IdleThread == [pc |-> "idle", kind |-> "none", reg |-> 0]

ThreadsInit ==
    /\ threads = [t \in Threads |-> IdleThread]
    /\ last_request_times = <<>>

AgentInit ==
    /\ pc = "idle"
    /\ routing_decision = NoDecision
    /\ request_url = NoUrl
    /\ payload_format = FALSE
    /\ force_json = FALSE
    /\ result = "none"
    /\ route_raised = FALSE
    /\ http_log = <<>>
    /\ calls = 0
    /\ memory_history = <<>>
    /\ at_start = [records |-> 0, metrics |-> <<>>]
    /\ failed_unprobed = {}
    /\ returned = [op |-> "none", kind |-> "none", node |-> NoUrl,
                   fallback_nodes |-> <<>>, healthy_then |-> {}]

\* The registry after add_node of two reachable nodes on two machines.
PopulatedRegistry ==
    LET e0 == [nodes |-> <<>>, cache |-> <<>>, healthy |-> <<>>]
        e1 == AddNodeEffect(UrlLocalhost, TRUE, e0.nodes, e0.cache, e0.healthy)
    IN  AddNodeEffect(UrlB, TRUE, e1.nodes, e1.cache, e1.healthy)

ClientIdle == pc \in {"idle", "done"} /\ calls < MaxCalls

\* call_ollama up to its first requests.post: the payload, the routing, the send.
CallOllama(fj, selected_host) ==
    /\ ClientIdle
    /\ LET r == RouteRequest(nodes, metrics, selected_host) IN
       /\ routing_decision' = IF r.kind = "raised" THEN NoDecision ELSE r
       /\ route_raised' = (r.kind = "raised")
       /\ request_url' = IF r.kind = "raised" THEN DefaultUrl ELSE NodeUrl(r.node)
       /\ http_log' = <<[url |-> IF r.kind = "raised" THEN DefaultUrl ELSE NodeUrl(r.node),
                         format |-> fj, after |-> "none"]>>
       /\ returned' = Returned("route_request", r)
    /\ force_json' = fj
    /\ payload_format' = fj
    /\ result' = "none"
    /\ pc' = "post"
    /\ calls' = calls + 1
    /\ at_start' = [records |-> Len(memory_history), metrics |-> metrics]
    /\ UNCHANGED <<memory_history, failed_unprobed>>
    /\ UNCHANGED <<registryVars, threadVars, trustVars, orchestratorVars>>

\* What raise_for_status raises on: a server that rejects the "format"
\* parameter, and any other HTTP error status.
HttpErrors == {"http_error_format", "http_error"}

\* load_balancer.record_performance(decision, duration, success)
RecordPerformance(d, success) ==
    /\ metrics' = [metrics EXCEPT ![routing_decision.node] =
                      RecordedMetrics(@, d, success)]
    /\ memory_history' = Append(memory_history,
                                [call |-> calls, url |-> NodeUrl(routing_decision.node),
                                 success |-> success])

\* The first requests.post returns or raises.
\*   outcome: "ok", an HTTP error (raise_for_status), "other" (timeout,
\*   connection error, a body that is no JSON); d: the measured duration;
\*   content_ok: whether a JSON output could be had from the response text.
PostResponse(outcome, d, content_ok) ==
    /\ pc = "post"
    /\ CASE outcome = "ok" ->
              /\ IF routing_decision # NoDecision
                 THEN RecordPerformance(d, TRUE)
                 ELSE UNCHANGED <<metrics, memory_history>>
              /\ result' = IF content_ok \/ ~force_json THEN "output" ELSE "content_error"
              /\ pc' = "done"
              /\ UNCHANGED <<payload_format, http_log, failed_unprobed>>
         [] outcome \in HttpErrors ->
              /\ IF routing_decision # NoDecision
                 THEN /\ RecordPerformance(d, FALSE)
                      /\ failed_unprobed' = failed_unprobed \cup {routing_decision.node}
                 ELSE UNCHANGED <<metrics, memory_history, failed_unprobed>>
              /\ IF force_json /\ payload_format
                 THEN /\ payload_format' = FALSE
                      /\ http_log' = Append(http_log, [url |-> request_url, format |-> FALSE,
                                                 after |-> outcome])
                      /\ pc' = "retry"
                      /\ UNCHANGED result
                 ELSE /\ result' = "request_error"
                      /\ pc' = "done"
                      /\ UNCHANGED <<payload_format, http_log>>
         [] OTHER ->
              /\ result' = "request_error"
              /\ pc' = "done"
              /\ failed_unprobed' = IF routing_decision # NoDecision
                                    THEN failed_unprobed \cup {routing_decision.node}
                                    ELSE failed_unprobed
              /\ UNCHANGED <<metrics, memory_history, payload_format, http_log>>
    /\ UNCHANGED <<routing_decision, request_url, force_json, route_raised, calls,
                   at_start, returned>>
    /\ UNCHANGED <<nodes, ip_cache, last_result, scan, load_queue, threadVars, trustVars, orchestratorVars>>

\* The retry without "format" returns (standardize_to_json) or raises.
RetryResponse(ok) ==
    /\ pc = "retry"
    /\ result' = IF ok THEN "output" ELSE "request_error"
    /\ pc' = "done"
    /\ failed_unprobed' = IF ~ok /\ routing_decision # NoDecision
                          THEN failed_unprobed \cup {routing_decision.node}
                          ELSE failed_unprobed
    /\ UNCHANGED <<routing_decision, request_url, payload_format, force_json, route_raised,
                   http_log, calls, memory_history, at_start, returned>>
    /\ UNCHANGED <<registryVars, threadVars, trustVars, orchestratorVars>>

\* node.health_check() of a registered node, as health_check_all runs it.
HealthCheck(u, up) ==
    /\ u \in Range(nodes)
    /\ metrics' = [metrics EXCEPT ![u].is_healthy = HealthCheckResult(u, up)]
    /\ failed_unprobed' = IF HealthCheckResult(u, up)
                          THEN failed_unprobed \ {u} ELSE failed_unprobed
    /\ UNCHANGED <<pc, routing_decision, request_url, payload_format, force_json, result,
                   route_raised, http_log, calls, memory_history, at_start, returned>>
    /\ UNCHANGED <<nodes, ip_cache, last_result, scan, load_queue, threadVars, trustVars, orchestratorVars>>

\* load_balancer.get_node(payload=...)
GetNode(with_payload, selected_host) ==
    /\ ClientIdle
    /\ calls' = calls + 1
    /\ returned' = Returned("get_node",
                            GetNodeResult(nodes, metrics, with_payload, selected_host))
    /\ UNCHANGED <<pc, routing_decision, request_url, payload_format, force_json, result,
                   route_raised, http_log, memory_history, at_start, failed_unprobed>>
    /\ UNCHANGED <<registryVars, threadVars, trustVars, orchestratorVars>>

\* load_balancer.route_with_fallback(payload)
RouteWithFallbackCall(selected_host) ==
    /\ ClientIdle
    /\ calls' = calls + 1
    /\ returned' = Returned("route_with_fallback",
                            RouteWithFallback(nodes, metrics, selected_host, MaxRetries))
    /\ UNCHANGED <<pc, routing_decision, request_url, payload_format, force_json, result,
                   route_raised, http_log, memory_history, at_start, failed_unprobed>>
    /\ UNCHANGED <<registryVars, threadVars, trustVars, orchestratorVars>>

\* The answers select_optimal_node may give in the current state.
SelectedHosts == SelectOptimalNode(HostUrls(GetHealthyNodes(nodes, metrics)))

BalancerInit ==
    /\ nodes = PopulatedRegistry.nodes
    /\ ip_cache = PopulatedRegistry.cache
    /\ metrics = PopulatedRegistry.healthy
    /\ last_result = PopulatedRegistry.result
    /\ scan = {}
    /\ load_queue = <<>>
    /\ AgentInit
    /\ ThreadsInit
    /\ TrustIdle
    /\ OrchestratorIdle

Next ==
    \/ \E fj \in BOOLEAN, h \in SelectedHosts : CallOllama(fj, h)
    \/ \E outcome \in {"ok", "other"} \cup HttpErrors, d \in Durations, c \in BOOLEAN :
          PostResponse(outcome, d, c)
    \/ \E ok \in BOOLEAN : RetryResponse(ok)
    \/ \E u \in Range(nodes), up \in BOOLEAN : HealthCheck(u, up)
    \/ \E p \in BOOLEAN, h \in SelectedHosts : GetNode(p, h)
    \/ \E h \in SelectedHosts : RouteWithFallbackCall(h)

Spec == BalancerInit /\ [][Next]_vars


(***************************************************************************)
(* C3: the router never returns a node that is unavailable: the node that   *)
(* route_request, get_node or route_with_fallback returns, and every        *)
(* fallback node with it, was healthy in the registry it decided from, and  *)
(* the call raises when no registered node was healthy.                     *)
(***************************************************************************)
C3_RouterReturnsOnlyAvailableNode ==
    /\ returned.kind = "node" => returned.node \in returned.healthy_then
    /\ returned.kind = "node" => Range(returned.fallback_nodes) \subseteq returned.healthy_then
    /\ (returned.op # "none" /\ returned.healthy_then = {}) => returned.kind = "raised"

\* get_node returned a node while another registered node was unhealthy.
C3_NodeReturnedWhileAnotherIsDown ==
    /\ returned.op = "get_node"
    /\ returned.kind = "node"
    /\ returned.healthy_then # Range(nodes)

(***************************************************************************)
(* C4: when route_request raised for want of a healthy node, the agent call *)
(* sends no inference request and its result reports the error.             *)
(***************************************************************************)
C4_NoHealthyNodeSendsNothing ==
    (route_raised /\ returned.healthy_then = {}) =>
        /\ http_log = <<>>
        /\ pc = "done" => result = "request_error"

RecordedNode == UrlLocalhost

\* The duration every recording measures, 0.2 s in units of 0.1 ms.
Elapsed == 2000

\* The recordings: record_performance(success=True / False), and the end of
\* generate on its success and on its failure path.
Recordings == {"record_ok", "record_fail", "generate_ok", "generate_fail"}

Failures == {"record_fail", "generate_fail"}

\* The counter a recording increments first: generate counts the failure before
\* the request, record_performance and a successful generate start with the total.
FirstStep(kind) == IF kind = "generate_fail" THEN "read_failed" ELSE "read_total"

\* What follows "total_requests += 1"
AfterTotal(kind) ==
    CASE kind = "record_fail" -> "read_failed"
      [] kind = "generate_fail" -> "done"
      [] OTHER -> "avg"

\* What follows "failed_requests += 1"
AfterFailed(kind) == IF kind = "generate_fail" THEN "read_total" ELSE "avg"

RECURSIVE SumSeq(_)
SumSeq(q) == IF q = <<>> THEN 0 ELSE Head(q) + SumSeq(Tail(q))

\* _update_avg_response_time: the window after the append, at most ten long
WindowAfter(window, elapsed) ==
    LET w == Append(window, elapsed) IN IF Len(w) > 10 THEN Tail(w) ELSE w

\* A thread enters record_performance (where memory.record_execution comes first)
\* or reaches the metric updates of generate.
BeginRecording(t, kind) ==
    /\ threads[t].pc = "idle"
    /\ threads' = [threads EXCEPT ![t] = [pc |-> FirstStep(kind), kind |-> kind, reg |-> 0]]
    /\ memory_history' =
           IF kind \in {"record_ok", "record_fail"}
           THEN Append(memory_history, [call |-> t, url |-> NodeUrl(RecordedNode),
                                        success |-> kind = "record_ok"])
           ELSE memory_history
    /\ UNCHANGED <<registryVars, last_request_times, trustVars, orchestratorVars>>
    /\ UNCHANGED <<pc, routing_decision, request_url, payload_format, force_json, result,
                   route_raised, http_log, calls, at_start, failed_unprobed, returned>>

\* The load of "+= 1"
LoadCounter(t) ==
    /\ threads[t].pc \in {"read_total", "read_failed"}
    /\ threads' = [threads EXCEPT ![t] =
          [@ EXCEPT !.pc = IF @ = "read_total" THEN "write_total" ELSE "write_failed",
                    !.reg = IF threads[t].pc = "read_total"
                            THEN metrics[RecordedNode].total_requests
                            ELSE metrics[RecordedNode].failed_requests]]
    /\ UNCHANGED <<registryVars, agentVars, last_request_times, trustVars, orchestratorVars>>

\* The store of "+= 1"
StoreCounter(t) ==
    /\ threads[t].pc \in {"write_total", "write_failed"}
    /\ metrics' = IF threads[t].pc = "write_total"
                  THEN [metrics EXCEPT ![RecordedNode].total_requests = threads[t].reg + 1]
                  ELSE [metrics EXCEPT ![RecordedNode].failed_requests = threads[t].reg + 1]
    /\ threads' = [threads EXCEPT ![t] =
          [@ EXCEPT !.pc = IF @ = "write_total"
                           THEN AfterTotal(threads[t].kind)
                           ELSE AfterFailed(threads[t].kind)]]
    /\ UNCHANGED <<nodes, ip_cache, last_result, scan, load_queue>>
    /\ UNCHANGED <<agentVars, last_request_times, trustVars, orchestratorVars>>

\* The average: the moving average in record_performance, the mean of the window
\* in generate.
UpdateAvg(t) ==
    /\ threads[t].pc = "avg"
    /\ IF threads[t].kind = "generate_ok"
       THEN /\ last_request_times' = WindowAfter(last_request_times, Elapsed)
            /\ metrics' = [metrics EXCEPT ![RecordedNode].avg_response_time =
                              SumSeq(WindowAfter(last_request_times, Elapsed))
                                  \div Len(WindowAfter(last_request_times, Elapsed))]
       ELSE /\ metrics' = [metrics EXCEPT ![RecordedNode].avg_response_time =
                              EmaLatency(@, Elapsed)]
            /\ UNCHANGED last_request_times
    /\ threads' = [threads EXCEPT ![t].pc = "done"]
    /\ UNCHANGED <<nodes, ip_cache, last_result, scan, load_queue>>
    /\ UNCHANGED <<agentVars, trustVars, orchestratorVars>>

\* The registry after add_node of the one node, no thread started.
MetricsInit ==
    LET e == AddNodeEffect(RecordedNode, TRUE, <<>>, <<>>, <<>>) IN
    /\ nodes = e.nodes
    /\ ip_cache = e.cache
    /\ metrics = e.healthy
    /\ last_result = e.result
    /\ scan = {}
    /\ load_queue = <<>>
    /\ AgentInit
    /\ ThreadsInit
    /\ TrustIdle
    /\ OrchestratorIdle

NextMetrics ==
    \/ \E t \in Threads, kind \in Recordings : BeginRecording(t, kind)
    \/ \E t \in Threads : LoadCounter(t)
    \/ \E t \in Threads : StoreCounter(t)
    \/ \E t \in Threads : UpdateAvg(t)

SpecMetrics == MetricsInit /\ [][NextMetrics]_vars

SuccessfulRequests(mt) == mt.total_requests - mt.failed_requests

(***************************************************************************)
(* C8: metric updates of one node exclude each other: once n concurrent     *)
(* recordings on the node have finished, total_requests is n higher and     *)
(* failed_requests is higher by the number of failed outcomes.              *)
(***************************************************************************)
C8_NoLostUpdate ==
    (\A t \in Threads : threads[t].pc = "done") =>
        /\ metrics[RecordedNode].total_requests = Cardinality(Threads)
        /\ metrics[RecordedNode].failed_requests =
               Cardinality({t \in Threads : threads[t].kind \in Failures})

(***************************************************************************)
(* C9: in every reachable state of a node, the states within a recording    *)
(* included, 0 <= failed_requests <= total_requests, and                    *)
(* successful_requests = total_requests - failed_requests is not negative.  *)
(***************************************************************************)
C9_FailedWithinTotal ==
    \A u \in Range(nodes) :
        /\ 0 <= metrics[u].failed_requests
        /\ metrics[u].failed_requests <= metrics[u].total_requests
        /\ SuccessfulRequests(metrics[u]) >= 0


(***************************************************************************)
(* trustcall: validate_and_repair.                                          *)
(***************************************************************************)
\* TrustCallValidator(max_repair_attempts=3)
max_repair_attempts == 3

\* The operations a patch holds at most.
MaxPatchLen == 2

JsonDicts == {JsonDict(f) : f \in FieldMaps}

FullDict == JsonDict([key_facts |-> "list", context |-> "str"])

\* The texts a model answers with: an object alone, in a fenced block, or after
\* words; no JSON at all; a JSON value that is no object; braces that hold no
\* JSON before an object, and inside a fenced block before one.
RawOutputs ==
    {<<d>> : d \in JsonDicts}
    \cup {<<Tok("fence"), d, Tok("fence")>> : d \in JsonDicts}
    \cup {<<Tok("prose"), d>> : d \in JsonDicts}
    \cup {<<Tok("prose")>>, <<Tok("array")>>, <<Tok("null")>>,
          <<Tok("braces"), FullDict>>,
          <<Tok("fence"), Tok("braces"), Tok("fence"), FullDict>>,
          <<Tok("fence"), FullDict, Tok("prose"), FullDict, Tok("fence")>>}

\* Python's truth value of a parsed JSON value
Truthy(j) ==
    \/ j.kind = "array"
    \/ j.kind = "dict" /\ \E f \in Fields : j.fields[f] # "absent"

\* json.loads(text): the value, or None where it raises JSONDecodeError
JsonLoads(text) ==
    IF Len(text) = 1 /\ text[1].kind \in {"dict", "array", "null"}
    THEN text[1] ELSE None

\* _try_parse_json
TryParseJson(text) ==
    [parsed |-> JsonLoads(text),
     errors |-> ~(Len(text) = 1 /\ text[1].kind \in {"dict", "array", "null"})]

Braced(tok) == tok.kind \in {"dict", "braces"}

\* The group of the first match of ```(?:json)?\s*(\{.*?\})\s*``` : from a brace
\* that follows a fence to the first closing brace that a fence follows.
CodeBlockStarts(text) ==
    {i \in 1..Len(text) :
        /\ text[i].kind = "fence"
        /\ i + 1 <= Len(text) /\ Braced(text[i + 1])
        /\ \E j \in (i + 1)..(Len(text) - 1) : Braced(text[j]) /\ text[j + 1].kind = "fence"}

CodeBlockGroup(text) ==
    LET i == CHOOSE k \in CodeBlockStarts(text) : \A l \in CodeBlockStarts(text) : k <= l
        ends == {j \in (i + 1)..(Len(text) - 1) : Braced(text[j]) /\ text[j + 1].kind = "fence"}
        j == CHOOSE k \in ends : \A l \in ends : k <= l
    IN  SubSeq(text, i + 1, j)

\* The first match of the raw object pattern: the leftmost braces.
RawObjectMatches(text) == {i \in 1..Len(text) : Braced(text[i])}

FirstRawObject(text) ==
    <<text[CHOOSE k \in RawObjectMatches(text) : \A l \in RawObjectMatches(text) : k <= l]>>

\* _extract_json_from_text
ExtractJsonFromText(text) ==
    IF CodeBlockStarts(text) # {} /\ JsonLoads(CodeBlockGroup(text)) # None
    THEN JsonLoads(CodeBlockGroup(text))
    ELSE IF RawObjectMatches(text) # {}
         THEN JsonLoads(FirstRawObject(text))
         ELSE None

\* _validate_against_schema: the fields in error
ValidateAgainstSchema(data, schema) ==
    {f \in DOMAIN schema : data.fields[f] = "absent" \/ data.fields[f] # schema[f]}

\* The operations of a JSON Patch on the fields of the schema.
PatchOps ==
    [op : {"add", "replace"}, path : Fields, value : {"list", "str"}]
    \cup [op : {"remove"}, path : Fields, value : {"absent"}]

\* What repair_fn answers: a list of operations, one operation alone, a JSON
\* value that is no patch, or no JSON.
PatchResponses ==
    [kind : {"ops_list"}, ops : UNION {[1..n -> PatchOps] : n \in 1..MaxPatchLen}]
    \cup [kind : {"op_object"}, ops : [1..1 -> PatchOps]]
    \cup [kind : {"other_json", "not_json"}, ops : {<<>>}]

\* jsonpatch: one operation on the document; "replace" and "remove" of a field
\* that is not there raise.
ApplyOp(doc, o) ==
    IF o.op = "add" THEN [ok |-> doc.ok, fields |-> [doc.fields EXCEPT ![o.path] = o.value]]
    ELSE IF doc.fields[o.path] = "absent" THEN [ok |-> FALSE, fields |-> doc.fields]
    ELSE [ok |-> doc.ok, fields |-> [doc.fields EXCEPT ![o.path] = o.value]]

RECURSIVE ApplyOps(_, _)
ApplyOps(doc, ops) ==
    IF ops = <<>> \/ ~doc.ok THEN doc ELSE ApplyOps(ApplyOp(doc, Head(ops)), Tail(ops))

\* json.loads(patch_response), the wrapping of a lone operation, and
\* JsonPatch(patch_ops).apply(current_json): the repaired document, or None where
\* any of them raises.
ApplyPatch(json, response) ==
    IF response.kind \in {"other_json", "not_json"}
    THEN None
    ELSE LET r == ApplyOps([ok |-> TRUE, fields |-> json.fields], response.ops) IN
         IF r.ok THEN JsonDict(r.fields) ELSE None

Normal(j) == [kind |-> "json", value |-> j]

\* {"agent": ..., "status": "error", "format": "text", "data": raw_output, "error": ...}
ErrorResult == [kind |-> "error_tag", value |-> None]

\* validate_and_repair up to its first call of repair_fn, or to its return.
ValidateAndRepair ==
    /\ tc_pc = "start"
    /\ LET p == TryParseJson(raw_output)
           extracted == IF ~Truthy(p.parsed) THEN ExtractJsonFromText(raw_output)
                        ELSE p.parsed
       IN  IF Truthy(p.parsed) /\ ~p.errors
           THEN /\ tc_result' = Normal(p.parsed)
                /\ tc_pc' = "returned"
                /\ UNCHANGED <<current_json, repair_attempt>>
           ELSE IF ~Truthy(extracted)
           THEN /\ tc_result' = ErrorResult
                /\ tc_pc' = "returned"
                /\ UNCHANGED <<current_json, repair_attempt>>
           ELSE IF ValidateAgainstSchema(extracted, ExpectedSchema) = {}
           THEN /\ tc_result' = Normal(extracted)
                /\ tc_pc' = "returned"
                /\ UNCHANGED <<current_json, repair_attempt>>
           ELSE /\ current_json' = extracted
                /\ repair_attempt' = 1
                /\ tc_pc' = "repair"
                /\ UNCHANGED tc_result
    /\ UNCHANGED raw_output
    /\ UNCHANGED <<registryVars, agentVars, threadVars, orchestratorVars>>

\* The loop "for attempt in range(1, max_repair_attempts + 1)" with one turn too many
MoreAttemptsOffByOne(a) == a <= max_repair_attempts

\* for attempt in range(1, self.max_repair_attempts + 1): whether a turn follows turn a
MoreAttempts(a) == a < max_repair_attempts

\* One turn of the repair loop: repair_fn answers, the patch is applied and the
\* result validated; after the last turn the function returns current_json.
RepairAttempt(patch_response) ==
    /\ tc_pc = "repair"
    /\ LET repaired_json == ApplyPatch(current_json, patch_response)
           fixed == repaired_json # None
                    /\ ValidateAgainstSchema(repaired_json, ExpectedSchema) = {}
           next_json == IF repaired_json # None THEN repaired_json ELSE current_json
       IN  IF fixed
           THEN /\ tc_result' = Normal(repaired_json)
                /\ tc_pc' = "returned"
                /\ UNCHANGED <<current_json, repair_attempt>>
           ELSE IF MoreAttempts(repair_attempt)
           THEN /\ current_json' = next_json
                /\ repair_attempt' = repair_attempt + 1
                /\ UNCHANGED <<tc_pc, tc_result>>
           ELSE /\ current_json' = next_json
                /\ tc_result' = Normal(next_json)
                /\ tc_pc' = "returned"
                /\ UNCHANGED repair_attempt
    /\ UNCHANGED raw_output
    /\ UNCHANGED <<registryVars, agentVars, threadVars, orchestratorVars>>

TrustCallInit ==
    /\ RegistryInit
    /\ AgentInit
    /\ ThreadsInit
    /\ raw_output \in RawOutputs
    /\ tc_pc = "start"
    /\ current_json = None
    /\ repair_attempt = 0
    /\ tc_result = [kind |-> "none", value |-> None]
    /\ OrchestratorIdle

NextTrustCall ==
    \/ ValidateAndRepair
    \/ \E r \in PatchResponses : RepairAttempt(r)

SpecTrustCall == TrustCallInit /\ [][NextTrustCall]_vars

\* validate_and_repair runs on: repair_fn answers (its request has a timeout and
\* its exceptions are caught), and the function takes its next step.
SpecTrustCallFair == SpecTrustCall /\ WF_vars(NextTrustCall)

\* The value is an object that has every field of the schema with its type.
SatisfiesSchema(j, schema) ==
    /\ j.kind = "dict"
    /\ \A f \in DOMAIN schema : j.fields[f] = schema[f]

(***************************************************************************)
(* C10: what validate_and_repair returns is an object that satisfies the    *)
(* expected schema, or a degraded result that carries an error tag.         *)
(***************************************************************************)
C10_ValidOrErrorTagged ==
    tc_pc = "returned" =>
        \/ tc_result.kind = "error_tag"
        \/ tc_result.kind = "json" /\ SatisfiesSchema(tc_result.value, ExpectedSchema)

(***************************************************************************)
(* C11: an output that parses as a JSON object is validated against the     *)
(* schema, and one that violates it enters repair: before                   *)
(* validate_and_repair returns, repair_fn has been asked at least once.     *)
(***************************************************************************)
C11_SchemaViolationEntersRepair ==
    (/\ tc_pc = "returned"
     /\ JsonLoads(raw_output).kind = "dict"
     /\ ValidateAgainstSchema(JsonLoads(raw_output), ExpectedSchema) # {}) =>
        repair_attempt >= 1


(***************************************************************************)
(* C12: validate_and_repair always returns, and it asks repair_fn for a     *)
(* patch at most max_repair_attempts times, whatever repair_fn answers.     *)
(***************************************************************************)
C12_TerminatesWithinMaxRepairs ==
    /\ [](repair_attempt <= max_repair_attempts)
    /\ <>(tc_pc = "returned")

\* The repair loop ran out: max_repair_attempts patches asked, the result still invalid.
C12_RepairExhausted ==
    /\ tc_pc = "returned"
    /\ repair_attempt = max_repair_attempts
    /\ tc_result.kind = "json"
    /\ ValidateAgainstSchema(tc_result.value, ExpectedSchema) # {}

\* validate_json_output: the fields every agent result is required to have
EnvelopeFields == {"agent", "status", "format", "data"}

\* The keys of what validate_and_repair returned: those of the error dict, or
\* those of the parsed or repaired object itself (a JSON array has none).
ResultKeys(r) ==
    IF r.kind = "error_tag"
    THEN {"agent", "status", "format", "data", "error"}
    ELSE {f \in Fields : r.value.kind = "dict" /\ r.value.fields[f] # "absent"}

\* The keys of what call_ollama returns on its trustcall path, routed or not:
\* validated_json with the routing metadata added to it; where the value is no
\* object and there is metadata to add, update() raises and the handler of
\* call_ollama returns its error result.
CallOllamaResultKeys(r, routed) ==
    IF r.kind = "json" /\ r.value.kind # "dict" /\ routed
    THEN EnvelopeFields
    ELSE ResultKeys(r) \cup (IF routed THEN {"_sollol_routing"} ELSE {})

(***************************************************************************)
(* C13: every result an agent call returns, on every path, is an object     *)
(* with the fields agent, status, format and data.                          *)
(***************************************************************************)
C13_ResultHasEnvelope ==
    tc_pc = "returned" =>
        \A routed \in BOOLEAN :
            EnvelopeFields \subseteq CallOllamaResultKeys(tc_result, routed)

(***************************************************************************)
(* C14: an agent re-sends its request without "format" only after an HTTP   *)
(* error that says the format parameter is unsupported, and at most once.   *)
(***************************************************************************)
C14_RetryOnlyWhenFormatUnsupported ==
    /\ Len(http_log) <= 2
    /\ \A k \in DOMAIN http_log : k > 1 => http_log[k].after = "http_error_format"

(***************************************************************************)
(* DistributedOrchestrator: the parallel execution modes.                   *)
(***************************************************************************)
\* The agents run() builds for a query.
Agents == {"Researcher", "Critic", "Editor"}

\* How agent.process ends in its worker thread: with the envelope of
\* standardize_to_json, with the object TrustCall validated (which call_ollama
\* returns as it is, without the envelope), or with an exception.
ProcessOutcomes == {"enveloped", "bare", "raised"}

\* load_balancer.get_nodes(count, strategy): SOLLOLLoadBalancer defines no such
\* method, so the call raises; the balancer of load_balancer.py answers the
\* healthy nodes.
GetNodesResult(use_sollol, keys, m) ==
    IF use_sollol THEN [kind |-> "raised", nodes |-> <<>>]
    ELSE [kind |-> "nodes", nodes |-> GetHealthyNodes(keys, m)]

\* One turn of "for future in as_completed(...)": json_outputs after the future
\* of agent a, which ended with outcome, has been taken.
CollectFuture(outputs, a, outcome) ==
    Append(outputs,
           [of |-> a,
            agent |-> IF outcome = "bare" THEN "absent" ELSE a,
            status |-> IF outcome = "raised" THEN "error" ELSE "success"])

\* _execute_parallel_same_node / _execute_parallel_multi_node up to the
\* submission of every agent to the pool.
ExecuteParallel(mode, use_sollol) ==
    /\ par_pc = "idle"
    /\ par_mode' = mode
    /\ LET have_node ==
               IF mode = "same_node"
               THEN GetNodeResult(nodes, metrics, FALSE, NoUrl).kind = "node"
               ELSE LET r == GetNodesResult(use_sollol, nodes, metrics) IN
                    r.kind = "nodes" /\ r.nodes # <<>>
       IN IF have_node
          THEN /\ par_pc' = "running"
               /\ futures' = [a \in Agents |-> "pending"]
          ELSE /\ par_pc' = "raised"
               /\ UNCHANGED futures
    /\ UNCHANGED json_outputs
    /\ UNCHANGED <<registryVars, agentVars, threadVars, trustVars, narrativeVars, longformVars, hybridVars, clusterVars,
                   latencyVars, eventVars, poolVars, otherVars>>

\* agent.process(input_data) ends in its worker thread.
AgentProcess(a, outcome) ==
    /\ par_pc = "running"
    /\ futures[a] = "pending"
    /\ futures' = [futures EXCEPT ![a] = outcome]
    /\ UNCHANGED <<par_pc, par_mode, json_outputs>>
    /\ UNCHANGED <<registryVars, agentVars, threadVars, trustVars, narrativeVars, longformVars, hybridVars, clusterVars,
                   latencyVars, eventVars, poolVars, otherVars>>

\* as_completed yields the finished future of agent a; the loop body runs.
AsCompleted(a) ==
    /\ par_pc = "running"
    /\ futures[a] \in ProcessOutcomes
    /\ json_outputs' = CollectFuture(json_outputs, a, futures[a])
    /\ futures' = [futures EXCEPT ![a] = "collected"]
    /\ UNCHANGED <<par_pc, par_mode>>
    /\ UNCHANGED <<registryVars, agentVars, threadVars, trustVars, narrativeVars, longformVars, hybridVars, clusterVars,
                   latencyVars, eventVars, poolVars, otherVars>>

\* Every future has been taken: merge_json_outputs(json_outputs) and return.
MergeOutputs ==
    /\ par_pc = "running"
    /\ \A a \in Agents : futures[a] = "collected"
    /\ par_pc' = "merged"
    /\ UNCHANGED <<par_mode, futures, json_outputs>>
    /\ UNCHANGED <<registryVars, agentVars, threadVars, trustVars, narrativeVars, longformVars, hybridVars, clusterVars,
                   latencyVars, eventVars, poolVars, otherVars>>

\* The orchestrator over a registry that is empty or holds two healthy nodes.
ParallelInit ==
    /\ \/ RegistryInit
       \/ /\ nodes = PopulatedRegistry.nodes
          /\ ip_cache = PopulatedRegistry.cache
          /\ metrics = PopulatedRegistry.healthy
          /\ last_result = PopulatedRegistry.result
          /\ scan = {}
          /\ load_queue = <<>>
    /\ AgentInit
    /\ ThreadsInit
    /\ TrustIdle
    /\ OrchestratorIdle

NextParallel ==
    \/ \E mode \in {"same_node", "multi_node"}, use_sollol \in BOOLEAN :
          ExecuteParallel(mode, use_sollol)
    \/ \E a \in Agents, outcome \in ProcessOutcomes : AgentProcess(a, outcome)
    \/ \E a \in Agents : AsCompleted(a)
    \/ MergeOutputs

SpecParallel == ParallelInit /\ [][NextParallel]_vars

\* C15: when a parallel execution has collected its outputs, the agents that
\* the entries of json_outputs name are the submitted agents, each exactly once.
C15_OutputsNameEverySubmittedAgentOnce ==
    par_pc = "merged" =>
        \A a \in Agents :
            Cardinality({k \in DOMAIN json_outputs : json_outputs[k].agent = a}) = 1

(***************************************************************************)
(* _extract_narrative_from_json.                                            *)
(*                                                                         *)
(* A string is the sequence of its characters.  A value of a dict is a     *)
(* string, a falsy value that is no string (0, [], None) or a truthy one   *)
(* that is no string (a list, a nested dict).  A dict is the sequence of   *)
(* its items in insertion order, the order in which items() yields them.   *)
(***************************************************************************)
MaxItems == 2

\* A text of 51 characters, the shortest the second pass accepts.
LongText == [i \in 1..51 |-> "a"]

Texts == {<<>>, <<" ">>, <<"a">>, LongText}

Values == [type : {"str"}, chars : Texts]
          \cup [type : {"falsy", "truthy"}, chars : {<<>>}]

\* The keys tried first, in priority order (two of the eight), then a key that
\* is all lower case and one that is not; none starts with an underscore.
PriorityKeys == <<"data", "context">>

DictKeys == {"data", "context", "note", "Title"}

IsLower(key) == key \in {"data", "context", "note"}

NarrativeDicts ==
    {d \in UNION {[1..n -> [key : DictKeys, value : Values]] : n \in 0..MaxItems} :
        \A i, j \in DOMAIN d : i # j => d[i].key # d[j].key}

\* bool(value)
ValueTruthy(v) == IF v.type = "str" THEN v.chars # <<>> ELSE v.type = "truthy"

\* value.strip() is not empty
StripTruthy(v) == \E i \in DOMAIN v.chars : v.chars[i] # " "

\* str(value)
Str(v) == IF v.type = "str" THEN v.chars
          ELSE IF v.type = "truthy" THEN <<"[", "]">> ELSE <<"0">>

\* The first index of the sequence that satisfies P, 0 when there is none.
FirstIndex(d, P(_)) ==
    IF \E i \in DOMAIN d : P(d[i])
    THEN CHOOSE i \in DOMAIN d : P(d[i]) /\ \A j \in 1..(i-1) : ~P(d[j])
    ELSE 0

\* _extract_narrative_from_json(content) for a dict
ExtractNarrativeFromJson(content) ==
    LET ByKey(key) == FirstIndex(content, LAMBDA it : it.key = key)
        known == FirstIndex(PriorityKeys,
                            LAMBDA key : ByKey(key) # 0
                                         /\ ValueTruthy(content[ByKey(key)].value))
        long == FirstIndex(content,
                           LAMBDA it : /\ it.value.type = "str"
                                       /\ Len(it.value.chars) > 50
                                       /\ ~IsLower(it.key))
        any == FirstIndex(content,
                          LAMBDA it : it.value.type = "str" /\ StripTruthy(it.value))
    IN  IF known # 0 THEN Str(content[ByKey(PriorityKeys[known])].value)
        ELSE IF long # 0 THEN Str(content[long].value)
        ELSE IF any # 0 THEN Str(content[any].value)
        ELSE <<>>

\* A caller holds a dict.
NarrativeInit ==
    /\ RegistryInit
    /\ AgentInit
    /\ ThreadsInit
    /\ TrustIdle
    /\ par_pc = "idle" /\ par_mode = "none" /\ futures = <<>> /\ json_outputs = <<>>
    /\ lf_pc = "idle" /\ lf_mode = "none" /\ content_type = "none" /\ chunks = <<>>
    /\ synthesis_result = <<>> /\ final_output = <<>>
    /\ HybridIdle
    /\ nar_pc = "idle"
    /\ nar_content \in [type : {"dict"}, items : NarrativeDicts]
    /\ nar_result = <<>>

\* self._extract_narrative_from_json(content)
ExtractNarrative ==
    /\ nar_pc = "idle"
    /\ nar_result' = ExtractNarrativeFromJson(nar_content.items)
    /\ nar_pc' = "done"
    /\ UNCHANGED nar_content
    /\ UNCHANGED <<registryVars, agentVars, threadVars, trustVars, parallelVars, longformVars, hybridVars, clusterVars,
                   latencyVars, eventVars, poolVars, otherVars>>

SpecNarrative == NarrativeInit /\ [][ExtractNarrative]_vars

\* C19: for a dict with at least one string value of one character or more,
\* the narrative extractor returns a string that is not empty.
C19_NarrativeNonEmpty ==
    (/\ nar_pc = "done"
     /\ \E i \in DOMAIN nar_content.items :
           /\ nar_content.items[i].value.type = "str"
           /\ Len(nar_content.items[i].value.chars) >= 1) =>
        nar_result # <<>>

(***************************************************************************)
(* DistributedOrchestrator.run_longform.                                    *)
(***************************************************************************)
MaxChunks == 6

\* The focus tables of _get_focus_areas_for_chunks, each string by a short name.
FocusTable(ct) ==
    IF ct = "research"
    THEN <<"fundamental concepts", "mathematical formalism", "experimental evidence",
           "real-world applications", "current research frontiers">>
    ELSE <<"introduction and overview", "core concepts and details",
           "examples and applications", "advanced topics", "summary and conclusions">>

\* _get_focus_areas_for_chunks(content_type, total_chunks)
GetFocusAreasForChunks(ct, total_chunks) ==
    [k \in {k \in DOMAIN FocusTable(ct) : k <= total_chunks} |-> FocusTable(ct)[k]]

\* focus_areas.get(i, "additional aspects"), the focus a continuation prompt names
ContinuationFocus(ct, i, total_chunks) ==
    LET focus_areas == GetFocusAreasForChunks(ct, total_chunks) IN
    IF i \in DOMAIN focus_areas THEN focus_areas[i] ELSE "additional aspects"

\* get_continuation_prompt(content_type, chunk_num, total_chunks, ...) of
\* content_detector.py: the focus its prompt names is that of the table.
GetContinuationPrompt(ct, i, total_chunks) == ContinuationFocus(ct, i, total_chunks)

\* The focus named in the prompt of chunk i.  The sequential mode writes the
\* prompt of chunk 1 out in full and asks get_continuation_prompt for the others.
ChunkFocus(mode, ct, i, total_chunks) ==
    IF mode = "parallel" THEN ContinuationFocus(ct, i, total_chunks)
    ELSE IF i = 1 THEN "fundamental concepts"
    ELSE GetContinuationPrompt(ct, i, total_chunks)

\* detect_content_type(query): the number of chunks it estimates
EstimatedChunks == 1..MaxChunks

\* What agent.process returns for a chunk or for the synthesis: an object
\* without narrative, or one with text under 'context'.
LongformContents ==
    {<<>>, <<[key |-> "context", value |-> [type |-> "str", chars |-> <<"a">>]]>>}

\* "\n\n".join(narratives)
RECURSIVE JoinNarratives(_)
JoinNarratives(ns) ==
    IF ns = <<>> THEN <<>>
    ELSE IF Len(ns) = 1 THEN ns[1]
    ELSE ns[1] \o <<"\n\n">> \o JoinNarratives(Tail(ns))

\* Every chunk is submitted at once.
MayStartChunkAtOnce(mode, i, cs) == TRUE

\* Whether the generation of chunk i may start: in the parallel mode chunk 1
\* is awaited before the continuation tasks are built, in the sequential mode
\* the loop generates one chunk after the other.
MayStartChunk(mode, i, cs) ==
    IF mode = "parallel"
    THEN i = 1 \/ cs[1].state = "done"
    ELSE \A j \in 1..(i-1) : cs[j].state = "done"

\* run_longform up to the choice of the mode
RunLongform(auto_detect, ct, estimated_chunks, max_chunks) ==
    /\ lf_pc = "idle"
    /\ LET chunks_needed == IF auto_detect THEN Min(estimated_chunks, max_chunks) ELSE 1
           use_parallel == Len(GetHealthyNodes(nodes, metrics)) >= 2 /\ chunks_needed > 1
       IN /\ lf_mode' = IF use_parallel THEN "parallel" ELSE "sequential"
          /\ chunks' = [i \in 1..chunks_needed |->
                           [state |-> "unstarted", focus |-> "none", content |-> <<>>]]
    /\ content_type' = ct
    /\ lf_pc' = "generating"
    /\ UNCHANGED <<synthesis_result, final_output>>
    /\ UNCHANGED <<registryVars, agentVars, threadVars, trustVars, parallelVars, narrativeVars, hybridVars, clusterVars,
                   latencyVars, eventVars, poolVars, otherVars>>

\* The prompt of chunk i is built and its agent starts.
StartChunk(i) ==
    /\ lf_pc = "generating"
    /\ i \in DOMAIN chunks
    /\ chunks[i].state = "unstarted"
    /\ MayStartChunk(lf_mode, i, chunks)
    /\ chunks' = [chunks EXCEPT ![i].state = "running",
                                ![i].focus = ChunkFocus(lf_mode, content_type, i,
                                                        Len(chunks))]
    /\ UNCHANGED <<lf_pc, lf_mode, content_type, synthesis_result, final_output>>
    /\ UNCHANGED <<registryVars, agentVars, threadVars, trustVars, parallelVars, narrativeVars, hybridVars, clusterVars,
                   latencyVars, eventVars, poolVars, otherVars>>

\* agent.process(prompt) of chunk i returns.
FinishChunk(i, content) ==
    /\ lf_pc = "generating"
    /\ i \in DOMAIN chunks
    /\ chunks[i].state = "running"
    /\ chunks' = [chunks EXCEPT ![i].state = "done", ![i].content = content]
    /\ UNCHANGED <<lf_pc, lf_mode, content_type, synthesis_result, final_output>>
    /\ UNCHANGED <<registryVars, agentVars, threadVars, trustVars, parallelVars, narrativeVars, hybridVars, clusterVars,
                   latencyVars, eventVars, poolVars, otherVars>>

\* All chunks are in all_chunks: the synthesis agent starts.
StartSynthesis ==
    /\ lf_pc = "generating"
    /\ \A i \in DOMAIN chunks : chunks[i].state = "done"
    /\ lf_pc' = "synthesizing"
    /\ UNCHANGED <<lf_mode, content_type, chunks, synthesis_result, final_output>>
    /\ UNCHANGED <<registryVars, agentVars, threadVars, trustVars, parallelVars, narrativeVars, hybridVars, clusterVars,
                   latencyVars, eventVars, poolVars, otherVars>>

\* The synthesis agent returns; the run returns its result.
FinishSynthesis(content) ==
    /\ lf_pc = "synthesizing"
    /\ synthesis_result' = content
    /\ LET final_content == ExtractNarrativeFromJson(content) IN
       final_output' =
           IF lf_mode = "parallel" /\ final_content = <<>>
           THEN JoinNarratives([i \in DOMAIN chunks |->
                                   ExtractNarrativeFromJson(chunks[i].content)])
           ELSE final_content
    /\ lf_pc' = "done"
    /\ UNCHANGED <<lf_mode, content_type, chunks>>
    /\ UNCHANGED <<registryVars, agentVars, threadVars, trustVars, parallelVars, narrativeVars, hybridVars, clusterVars,
                   latencyVars, eventVars, poolVars, otherVars>>

LongformInit == ParallelInit

NextLongform ==
    \/ \E auto_detect \in BOOLEAN, ct \in {"research", "general"},
          estimated_chunks \in EstimatedChunks, max_chunks \in 1..MaxChunks :
          RunLongform(auto_detect, ct, estimated_chunks, max_chunks)
    \/ \E i \in 1..MaxChunks : StartChunk(i)
    \/ \E i \in 1..MaxChunks, content \in LongformContents : FinishChunk(i, content)
    \/ StartSynthesis
    \/ \E content \in LongformContents : FinishSynthesis(content)

SpecLongform == LongformInit /\ [][NextLongform]_vars

\* C16: no chunk after the first is being generated, or has been, before chunk
\* 1 is complete, and the synthesis starts only when every chunk is complete.
C16_ChunkOneThenOthersThenSynthesis ==
    /\ \A i \in DOMAIN chunks :
          (i > 1 /\ chunks[i].state # "unstarted") => chunks[1].state = "done"
    /\ lf_pc \in {"synthesizing", "done"} =>
          \A i \in DOMAIN chunks : chunks[i].state = "done"

\* A parallel run of three chunks or more has returned.
C16_ParallelRunSynthesized ==
    lf_pc = "done" /\ lf_mode = "parallel" /\ Len(chunks) >= 3

\* C17: in a research run every chunk after the first has in its prompt a focus
\* area of the first chunks_needed entries of the research table, and no two
\* chunks of the run have the same focus area.
C17_DistinctFocusFromPrefix ==
    (content_type = "research" /\ lf_pc \in {"synthesizing", "done"}) =>
        /\ \A i \in DOMAIN chunks :
              i > 1 => \E k \in 1..Min(Len(chunks), Len(FocusTable("research"))) :
                          chunks[i].focus = FocusTable("research")[k]
        /\ \A i, j \in DOMAIN chunks : i # j => chunks[i].focus # chunks[j].focus

\* C18: when the synthesis returned nothing, the final output of the run is the
\* concatenation of the narratives of its chunks.
C18_EmptySynthesisFallsBack ==
    (lf_pc = "done" /\ ExtractNarrativeFromJson(synthesis_result) = <<>>) =>
        final_output = JoinNarratives([i \in DOMAIN chunks |->
                                          ExtractNarrativeFromJson(chunks[i].content)])

Init == RegistryInit /\ AgentInit /\ ThreadsInit /\ TrustIdle /\ OrchestratorIdle

(***************************************************************************)
(* Routing over a registry that add_node fills.                             *)
(***************************************************************************)
\* no port, no trailing slash: "http://localhost"
UrlNoPort == <<"http", "://", "localhost">>

\* The URLs add_node is called with before requests are routed.
RouteUrls == {UrlSlash, UrlNoPort, UrlB}

NextRouting ==
    \/ \E url \in RouteUrls, up \in BOOLEAN : AddNode(url, up)
    \/ \E u \in RouteUrls, up \in BOOLEAN : HealthCheck(u, up)
    \/ \E h \in SelectedHosts : RouteWithFallbackCall(h)

SpecRouting == Init /\ [][NextRouting]_vars

UrlC == <<"http", "://", "10.0.0.3", ":", "11434">>

\* Three registered nodes, each new, or after one fast success, or after one
\* slow failure, and healthy or not.
ThreeNodes == <<UrlLocalhost, UrlB, UrlC>>

NodeHistories ==
    {[mt EXCEPT !.is_healthy = h] :
        mt \in {NewMetrics, RecordedMetrics(NewMetrics, 2000, TRUE),
                RecordedMetrics(NewMetrics, 10000, FALSE)},
        h \in BOOLEAN}

FallbackOrderInit ==
    /\ nodes = ThreeNodes
    /\ ip_cache = [h \in {<<"localhost">>, <<"10.0.0.2">>, <<"10.0.0.3">>} |->
                      DnsTable[h[1]]]
    /\ metrics \in [Range(ThreeNodes) -> NodeHistories]
    /\ last_result = [kind |-> "added", url |-> UrlC]
    /\ scan = {}
    /\ load_queue = <<>>
    /\ AgentInit
    /\ ThreadsInit
    /\ TrustIdle
    /\ OrchestratorIdle

NextFallbackOrder == \E h \in SelectedHosts : RouteWithFallbackCall(h)

SpecFallbackOrder == FallbackOrderInit /\ [][NextFallbackOrder]_vars

MODEL_PROFILES ==
    (<<"llama3.2">> :>
        [parameter_count |-> 3, estimated_memory |-> 25, requires_distributed |-> FALSE])
    @@ (<<"llama3", ":", "70b">> :>
        [parameter_count |-> 70, estimated_memory |-> 400, requires_distributed |-> TRUE])
    @@ (<<"qwen2.5", ":", "72b">> :>
        [parameter_count |-> 72, estimated_memory |-> 420, requires_distributed |-> TRUE])
    @@ (<<"llama3.1", ":", "405b">> :>
        [parameter_count |-> 405, estimated_memory |-> 2300, requires_distributed |-> TRUE])

\* The models route_request is asked for: four of the table, two that are not.
ModelNames ==
    DOMAIN MODEL_PROFILES
    \cup {<<"codellama", ":", "34b">>, <<"llama3.1", ":", "405b", "-instruct">>}

\* The patterns _estimate_model_profile looks for, in its order.
ParamPatterns ==
    <<[pattern |-> "405b", count |-> 405], [pattern |-> "70b", count |-> 70],
      [pattern |-> "34b", count |-> 34], [pattern |-> "13b", count |-> 13]>>

\* _estimate_model_profile(model)
EstimateModelProfile(model) ==
    LET hit == {i \in DOMAIN ParamPatterns : ParamPatterns[i].pattern \in Range(model)}
        param_count == IF hit = {} THEN 8
                       ELSE ParamPatterns[CHOOSE i \in hit : \A j \in hit : i <= j].count
    IN  [parameter_count |-> param_count, estimated_memory |-> param_count * 6,
         requires_distributed |-> param_count > 70]

\* _get_model_profile(model)
GetModelProfile(model) ==
    IF model \in DOMAIN MODEL_PROFILES THEN MODEL_PROFILES[model]
    ELSE IF BeforeFirst(model, ":") \in DOMAIN MODEL_PROFILES
         THEN MODEL_PROFILES[BeforeFirst(model, ":")]
         ELSE EstimateModelProfile(model)

\* should_use_distributed(model)
ShouldUseDistributed(model, enabled) ==
    IF ~enabled THEN FALSE
    ELSE LET profile == GetModelProfile(model) IN
         IF profile.parameter_count <= 13 THEN FALSE
         ELSE IF profile.parameter_count <= 70 THEN profile.requires_distributed
         ELSE TRUE

\* The model_path of a LlamaCppNode, <<>> where the node has none.
ModelPaths ==
    {<<>>, <<"models", "/", "llama3.1", "-", "405b", ".gguf">>,
     <<"models", "/", "qwen2.5", "-", "72b", ".gguf">>}

MaxRpcNodes == 2

\* The lists of llama.cpp nodes a router is built with, each node by its model_path
LlamaCppNodeLists == UNION {[1..n -> ModelPaths] : n \in 0..MaxRpcNodes}

\* text.split(sep)[-1]
AfterLast(text, sep) ==
    LET at == {i \in DOMAIN text : text[i] = sep} IN
    IF at = {} THEN text
    ELSE SubSeq(text, (CHOOSE i \in at : \A j \in at : j <= i) + 1, Len(text))

\* text.replace(old, new) for one piece old; new = "" removes it
Replace(text, old, new) ==
    LET kept == SelectSeq(text, LAMBDA c : ~(c = old /\ new = "")) IN
    [i \in DOMAIN kept |-> IF kept[i] = old THEN new ELSE kept[i]]

\* node.model_path.split('/')[-1].replace('.gguf', '')
ModelOfPath(model_path) == Replace(AfterLast(model_path, "/"), ".gguf", "")

\* The keys of a dict filled in the order of the list: the first of a key stays
RECURSIVE KeysInOrder(_)
KeysInOrder(list) ==
    IF list = <<>> THEN <<>>
    ELSE LET before == KeysInOrder(SubSeq(list, 1, Len(list) - 1))
             k == list[Len(list)]
         IN  IF k \in Range(before) THEN before ELSE Append(before, k)

\* _setup_distributed_clusters(nodes): the keys of llamacpp_clusters afterwards
SetupDistributedClusters(llamacpp_nodes) ==
    IF \A i \in DOMAIN llamacpp_nodes : llamacpp_nodes[i] # <<>>
    THEN KeysInOrder([i \in DOMAIN llamacpp_nodes |-> ModelOfPath(llamacpp_nodes[i])])
    ELSE << <<"default">> >>

\* _get_cluster_for_model(model), asked only where there is a cluster
GetClusterForModel(model, keys) ==
    LET model_key == Replace(model, ":", "-") IN
    IF model_key \in Range(keys) THEN model_key
    ELSE IF <<"default">> \in Range(keys) THEN <<"default">>
    ELSE keys[1]

\* HybridRouter(ollama_pool, llamacpp_nodes, enable_distributed), with the Ollama
\* nodes as they are: llamacpp_nodes is None, an empty list or a list of nodes.
HybridInit ==
    /\ RegistryInit
    /\ AgentInit
    /\ ThreadsInit
    /\ TrustIdle
    /\ par_pc = "idle" /\ par_mode = "none" /\ futures = <<>> /\ json_outputs = <<>>
    /\ lf_pc = "idle" /\ lf_mode = "none" /\ content_type = "none" /\ chunks = <<>>
    /\ synthesis_result = <<>> /\ final_output = <<>>
    /\ nar_pc = "idle" /\ nar_content = [type |-> "none", items |-> <<>>]
    /\ nar_result = <<>>
    /\ \E enable \in BOOLEAN, given \in BOOLEAN, llamacpp_nodes \in LlamaCppNodeLists :
          /\ given \/ llamacpp_nodes = <<>>
          /\ enable_distributed = (enable /\ given)
          /\ llamacpp_clusters = (enable /\ given /\ llamacpp_nodes # <<>>)
          /\ llamacpp_cluster_keys =
                IF enable /\ given /\ llamacpp_nodes # <<>>
                THEN SetupDistributedClusters(llamacpp_nodes) ELSE <<>>
    /\ ollama_pool \in BOOLEAN
    /\ free_gpu_memory \in {0, 240, 800}
    /\ hr_model = <<>>
    /\ hr_result = "none"
    /\ hr_cluster = <<>>
    /\ ClustersIdle

\* HybridRouter.route_request(model, messages)
HybridRouteRequest(model) ==
    /\ hr_model' = model
    /\ hr_result' =
          IF ShouldUseDistributed(model, enable_distributed)
          THEN IF llamacpp_clusters THEN "llamacpp" ELSE "RuntimeError"
          ELSE IF ollama_pool THEN "ollama" ELSE "RuntimeError"
    /\ hr_cluster' =
          IF ShouldUseDistributed(model, enable_distributed) /\ llamacpp_clusters
          THEN GetClusterForModel(model, llamacpp_cluster_keys) ELSE <<>>
    /\ UNCHANGED <<enable_distributed, llamacpp_clusters, ollama_pool, free_gpu_memory,
                   llamacpp_cluster_keys>>
    /\ UNCHANGED <<registryVars, agentVars, threadVars, trustVars, parallelVars,
                   narrativeVars, longformVars, clusterVars, latencyVars,
                   eventVars, poolVars, otherVars>>

NextHybrid == \E model \in ModelNames : HybridRouteRequest(model)

SpecHybrid == HybridInit /\ [][NextHybrid]_vars

\* C22: a request for a model of more than 70B parameters goes to a llama.cpp
\* cluster, or fails when there is none; it is never sent to the Ollama pool.
C22_LargeModelNeverToOllama ==
    (hr_result # "none" /\ GetModelProfile(hr_model).parameter_count > 70) =>
        hr_result = IF llamacpp_clusters THEN "llamacpp" ELSE "RuntimeError"

\* C23: a request for a model of 14B to 70B parameters goes to the Ollama pool
\* exactly when a single node has the free GPU memory the model is estimated to
\* need, and to a llama.cpp cluster otherwise (where the router has both).
C23_MediumModelByGpuMemory ==
    (/\ hr_result # "none"
     /\ ollama_pool /\ llamacpp_clusters
     /\ GetModelProfile(hr_model).parameter_count >= 14
     /\ GetModelProfile(hr_model).parameter_count <= 70) =>
        hr_result = IF free_gpu_memory >= GetModelProfile(hr_model).estimated_memory
                    THEN "ollama" ELSE "llamacpp"

\* C38: a request sent down the RPC path is served by the cluster set up for
\* the requested model or by the general cluster 'default', never by the
\* cluster of another model.
C38_ClusterOfTheModelOrDefault ==
    hr_result = "llamacpp" =>
        /\ hr_cluster \in Range(llamacpp_cluster_keys)
        /\ hr_cluster \in {Replace(hr_model, ":", "-"), <<"default">>}

\* The cluster of the model is taken where there is one, the general one next.
OwnClusterFirst ==
    hr_result = "llamacpp" =>
        /\ Replace(hr_model, ":", "-") \in Range(llamacpp_cluster_keys) =>
              hr_cluster = Replace(hr_model, ":", "-")
        /\ (/\ Replace(hr_model, ":", "-") \notin Range(llamacpp_cluster_keys)
            /\ <<"default">> \in Range(llamacpp_cluster_keys)) =>
              hr_cluster = <<"default">>

(***************************************************************************)
(* NodeRegistry.create_cluster.                                             *)
(***************************************************************************)
MaxClusterUrls == 3

ClusterNames == {"c1", "c2"}

\* The lists of node URLs create_cluster is called with: registered nodes and
\* one URL that is not registered.
NodeUrlLists ==
    UNION {[1..n -> {UrlLocalhost, UrlB, UrlLoopback}] : n \in 0..MaxClusterUrls}

\* The validation loop and the count: whether create_cluster raises ValueError.
ClusterRejected(node_urls, keys, m) ==
    \/ \E i \in DOMAIN node_urls :
          node_urls[i] \notin Range(keys) \/ ~m[node_urls[i]].is_healthy
    \/ Len(node_urls) < 2

\* registry.create_cluster(name, node_urls, model)
CreateCluster(name, node_urls) ==
    /\ IF ClusterRejected(node_urls, nodes, metrics)
       THEN /\ cluster_result' = "ValueError"
            /\ UNCHANGED clusters
       ELSE /\ cluster_result' = "created"
            /\ clusters' = [n \in DOMAIN clusters \cup {name} |->
                               IF n = name THEN node_urls ELSE clusters[n]]
    /\ UNCHANGED <<latencyVars, eventVars, poolVars, otherVars>>
    /\ UNCHANGED <<registryVars, agentVars, threadVars, trustVars, parallelVars,
                   narrativeVars, longformVars, hybridVars>>

NextClusters ==
    \/ \E name \in ClusterNames, node_urls \in NodeUrlLists : CreateCluster(name, node_urls)
    \/ \E u \in Range(nodes), up \in BOOLEAN : HealthCheck(u, up)

SpecClusters == BalancerInit /\ [][NextClusters]_vars

\* C26: a cluster enters the registry only with two backends or more, each a
\* registered and healthy node at that moment; a call that raises leaves the
\* clusters as they are.
C26_ClusterOfTwoHealthyNodes ==
    [][/\ \A n \in DOMAIN clusters' :
             (n \notin DOMAIN clusters \/ clusters'[n] # clusters[n]) =>
                 /\ Cardinality(Range(clusters'[n])) >= 2
                 /\ \A u \in Range(clusters'[n]) :
                       u \in Range(nodes) /\ metrics[u].is_healthy
       /\ cluster_result' = "ValueError" => clusters' = clusters]_vars

(***************************************************************************)
(* The latency average of one node, recorded one sample after the other by  *)
(* record_performance (a moving average) and by generate (the mean of the   *)
(* last ten samples of generate).                                           *)
(***************************************************************************)
MaxSamples == 4

\* record_performance(decision, actual_duration_ms, success) on RecordedNode
RecordSample(d, success) ==
    /\ metrics[RecordedNode].total_requests < MaxSamples
    /\ metrics' = [metrics EXCEPT ![RecordedNode] = RecordedMetrics(@, d, success)]
    /\ memory_history' = Append(memory_history,
                                [call |-> 0, url |-> NodeUrl(RecordedNode),
                                 success |-> success])
    /\ lat_path' = "record_performance"
    /\ lat_sample' = d
    /\ UNCHANGED <<nodes, ip_cache, last_result, scan, load_queue, threadVars, trustVars>>
    /\ UNCHANGED <<pc, routing_decision, request_url, payload_format, force_json, result,
                   route_raised, http_log, calls, at_start, failed_unprobed, returned>>
    /\ UNCHANGED <<parallelVars, narrativeVars, longformVars, hybridVars, clusterVars,
                   eventVars, poolVars, otherVars>>

\* The success path of OllamaNode.generate, which took elapsed
GenerateSample(elapsed) ==
    /\ metrics[RecordedNode].total_requests < MaxSamples
    /\ last_request_times' = WindowAfter(last_request_times, elapsed)
    /\ metrics' = [metrics EXCEPT
          ![RecordedNode].total_requests = @ + 1,
          ![RecordedNode].avg_response_time =
              SumSeq(WindowAfter(last_request_times, elapsed))
                  \div Len(WindowAfter(last_request_times, elapsed))]
    /\ lat_path' = "generate"
    /\ lat_sample' = elapsed
    /\ UNCHANGED <<nodes, ip_cache, last_result, scan, load_queue, threads, trustVars>>
    /\ UNCHANGED agentVars
    /\ UNCHANGED <<parallelVars, narrativeVars, longformVars, hybridVars, clusterVars,
                   eventVars, poolVars, otherVars>>

NextLatency ==
    \/ \E d \in Durations, success \in BOOLEAN : RecordSample(d, success)
    \/ \E elapsed \in Durations : GenerateSample(elapsed)

SpecLatency == MetricsInit /\ [][NextLatency]_vars

MaxEvents == 5

\* The bound the events are to stay under, scaled down from about 10 000.
EventBound == 3

LogRecords == [name : {"werkzeug", "dashboard"}, levelname : {"INFO", "WARNING"}]

\* '%(asctime)s - %(name)s - %(levelname)s - %(message)s'
Format(record) == <<record.name, " - ", record.levelname>>

\* QueueLogHandler.emit(record): log_queue.put on a queue.Queue() without maxsize
Emit(record) ==
    /\ Len(log_queue) < MaxEvents
    /\ log_queue' = Append(log_queue, Format(record))
    /\ UNCHANGED <<global_publisher, pub_enabled, is_connected, total_published,
                   failed_publishes, pub_result, pub_sleeps, pub_backend, pub_channels>>
    /\ UNCHANGED <<registryVars, agentVars, threadVars, trustVars, parallelVars,
                   narrativeVars, longformVars, hybridVars, clusterVars, latencyVars,
                   poolVars, otherVars>>

\* ws_logs: log_queue.get(timeout=1) of a connected client, then ws.send
WsLogsGet ==
    /\ log_queue # <<>>
    /\ log_queue' = Tail(log_queue)
    /\ UNCHANGED <<global_publisher, pub_enabled, is_connected, total_published,
                   failed_publishes, pub_result, pub_sleeps, pub_backend, pub_channels>>
    /\ UNCHANGED <<registryVars, agentVars, threadVars, trustVars, parallelVars,
                   narrativeVars, longformVars, hybridVars, clusterVars, latencyVars,
                   poolVars, otherVars>>

NextLogQueue ==
    \/ \E record \in LogRecords : Emit(record)
    \/ WsLogsGet

SpecLogQueue == Init /\ [][NextLogQueue]_vars

\* C29: the queue never holds more events than its bound, and an event put into
\* a full queue takes the place of the oldest one.
C29_QueueBoundedDropsOldest ==
    [][/\ Len(log_queue') <= EventBound
       /\ (Len(log_queue) = EventBound /\ Len(log_queue') >= Len(log_queue)) =>
              \A i \in 1..(EventBound - 1) : log_queue'[i] = log_queue[i + 1]]_vars

(***************************************************************************)
(* RedisLogPublisher: every publish call first makes sure of the connection *)
(* (_ensure_connected), then publishes to the channels of the event.        *)
(***************************************************************************)
\* RedisLogPublisher(max_retries=3)
max_retries == 3

\* The publish calls the model follows on one publisher
MaxPublishes == 3

Components == {"coordinator", "rpc_backend", "system"}

EventTypes == {"metric", "coordinator_start"}

\* The channels publish_log publishes an event to, in the order of the calls
ChannelsOf(component, event_type) ==
    <<"logs">>
    \o (CASE component = "coordinator" -> <<"coordinator">>
          [] component = "rpc_backend" -> <<"rpc_backends">>
          [] OTHER -> <<>>)
    \o (IF event_type \in {"metric", "performance", "stats"} THEN <<"metrics">> ELSE <<>>)

\* The time.sleep(retry_delay) calls of the reconnect loop when _connect first
\* succeeds at attempt connect_at (0: at no attempt).
SleepsOfReconnect(connect_at) ==
    IF connect_at = 0 THEN max_retries - 1 ELSE connect_at - 1

\* _ensure_connected(): ping_ok is the answer to the ping of a connection held,
\* connect_at the attempt of the reconnect loop at which _connect succeeds.
EnsureConnected(en, conn, ping_ok, connect_at) ==
    IF ~en THEN [ok |-> FALSE, sleeps |-> 0, conn |-> conn, answered |-> FALSE]
    ELSE IF conn /\ ping_ok
         THEN [ok |-> TRUE, sleeps |-> 0, conn |-> TRUE, answered |-> TRUE]
         ELSE [ok |-> connect_at # 0, sleeps |-> SleepsOfReconnect(connect_at),
               conn |-> connect_at # 0, answered |-> connect_at # 0]

\* initialize_global_publisher(enabled): RedisLogPublisher.__init__ connects once
InitializeGlobalPublisher(en, up) ==
    /\ IF global_publisher
       THEN UNCHANGED <<global_publisher, pub_enabled, is_connected, total_published,
                        failed_publishes>>
       ELSE /\ global_publisher' = TRUE
            /\ pub_enabled' = en
            /\ is_connected' = (en /\ up)
            /\ total_published' = 0
            /\ failed_publishes' = 0
    /\ UNCHANGED <<log_queue, pub_result, pub_sleeps, pub_backend, pub_channels>>
    /\ UNCHANGED <<registryVars, agentVars, threadVars, trustVars, parallelVars,
                   narrativeVars, longformVars, hybridVars, clusterVars, latencyVars,
                   poolVars, otherVars>>

\* shutdown_global_publisher(): close() and forget the publisher
ShutdownGlobalPublisher ==
    /\ global_publisher
    /\ global_publisher' = FALSE
    /\ is_connected' = FALSE
    /\ UNCHANGED <<log_queue, pub_enabled, total_published, failed_publishes,
                   pub_result, pub_sleeps, pub_backend, pub_channels>>
    /\ UNCHANGED <<registryVars, agentVars, threadVars, trustVars, parallelVars,
                   narrativeVars, longformVars, hybridVars, clusterVars, latencyVars,
                   poolVars, otherVars>>

\* A publish call on the channels chs; fail_at is the redis_client.publish call
\* that raises (0: none does).
Publish(chs, ping_ok, connect_at, fail_at) ==
    LET e == EnsureConnected(pub_enabled, is_connected, ping_ok, connect_at) IN
    /\ global_publisher
    /\ total_published + failed_publishes < MaxPublishes
    /\ fail_at <= Len(chs)
    /\ pub_sleeps' = e.sleeps
    /\ IF ~e.ok
       THEN /\ failed_publishes' = failed_publishes + 1
            /\ is_connected' = e.conn
            /\ pub_result' = "False"
            /\ pub_backend' = e.answered
            /\ pub_channels' = {}
            /\ UNCHANGED total_published
       ELSE IF fail_at = 0
            THEN /\ total_published' = total_published + 1
                 /\ is_connected' = TRUE
                 /\ pub_result' = "True"
                 /\ pub_backend' = TRUE
                 /\ pub_channels' = Range(chs)
                 /\ UNCHANGED failed_publishes
            ELSE /\ failed_publishes' = failed_publishes + 1
                 /\ is_connected' = FALSE
                 /\ pub_result' = "False"
                 /\ pub_backend' = TRUE
                 /\ pub_channels' = {chs[i] : i \in 1..(fail_at - 1)}
                 /\ UNCHANGED total_published
    /\ UNCHANGED <<log_queue, global_publisher, pub_enabled>>
    /\ UNCHANGED <<registryVars, agentVars, threadVars, trustVars, parallelVars,
                   narrativeVars, longformVars, hybridVars, clusterVars, latencyVars,
                   poolVars, otherVars>>

\* publish_log(component, level, message, event_type)
PublishLog(component, event_type, ping_ok, connect_at, fail_at) ==
    Publish(ChannelsOf(component, event_type), ping_ok, connect_at, fail_at)

\* publish_raw_log(log_line, source)
PublishRawLog(ping_ok, connect_at, fail_at) ==
    Publish(<<"raw">>, ping_ok, connect_at, fail_at)

NextPublisher ==
    \/ \E en, up \in BOOLEAN : InitializeGlobalPublisher(en, up)
    \/ ShutdownGlobalPublisher
    \/ \E component \in Components, event_type \in EventTypes, ping_ok \in BOOLEAN,
          connect_at \in 0..max_retries, fail_at \in 0..3 :
          PublishLog(component, event_type, ping_ok, connect_at, fail_at)
    \/ \E ping_ok \in BOOLEAN, connect_at \in 0..max_retries, fail_at \in 0..1 :
          PublishRawLog(ping_ok, connect_at, fail_at)

SpecPublisher == Init /\ [][NextPublisher]_vars

\* C30: a publish call returns without having slept or waited for a reconnect,
\* and when Redis answered at no point of the call it returned False.
C30_PublishNeverSleeps ==
    pub_result # "none" =>
        /\ pub_sleeps = 0
        /\ ~pub_backend => pub_result = "False"

\* With Redis unreachable the call returns False (both publish methods catch
\* every exception, so no call of the model raises).
UnreachableReturnsFalse ==
    (pub_result # "none" /\ ~pub_backend) => pub_result = "False"

(***************************************************************************)
(* sollol.pool.get_pool: the global pool, made on first use by whichever    *)
(* caller comes first. Every caller is a thread calling get_pool() once.    *)
(***************************************************************************)
\* The nodes of the pool: {"host": h, "port": "11434"}, written as the host
PoolHosts == {"10.0.0.1", "10.0.0.2"}

\* What discover_ollama_nodes(timeout=0.5) can return
DiscoveredLists == {<<>>, <<"10.0.0.1">>, <<"10.0.0.1", "10.0.0.2">>}

\* "if _global_pool is None" under _pool_lock, without the check
InnerCheckSkipped(g) == TRUE

\* "if _global_pool is None" under _pool_lock
InnerCheck(g) == g = 0

PoolFrame ==
    /\ UNCHANGED <<registryVars, agentVars, threadVars, trustVars, parallelVars,
                   narrativeVars, longformVars, hybridVars, clusterVars, latencyVars,
                   eventVars, otherVars>>

\* get_pool(): "if _global_pool is None", read without the lock
GetPoolCheck(t) ==
    /\ get_pool_calls[t].pc = "start"
    /\ get_pool_calls' = [get_pool_calls EXCEPT ![t] =
          [@ EXCEPT !.pc = IF global_pool = 0 THEN "acquire" ELSE "return",
                    !.saw = global_pool]]
    /\ UNCHANGED <<global_pool, pool_lock, pools_constructed, pool_nodes, current_index,
                   stats, requests_in_flight>>
    /\ PoolFrame

\* "with _pool_lock:" entered
GetPoolAcquire(t) ==
    /\ get_pool_calls[t].pc = "acquire"
    /\ pool_lock = 0
    /\ pool_lock' = t
    /\ get_pool_calls' = [get_pool_calls EXCEPT ![t].pc = "locked"]
    /\ UNCHANGED <<global_pool, pools_constructed, pool_nodes, current_index, stats,
                   requests_in_flight>>
    /\ PoolFrame

\* The body of the with block, up to the release of the lock:
\* _global_pool = OllamaPool.auto_configure() if it is still None
GetPoolLocked(t, discovered) ==
    /\ get_pool_calls[t].pc = "locked"
    /\ IF InnerCheck(global_pool)
       THEN /\ pools_constructed' = pools_constructed + 1
            /\ global_pool' = pools_constructed + 1
            /\ pool_nodes' = discovered
            /\ current_index' = 0
            /\ stats' = NewStats
       ELSE UNCHANGED <<pools_constructed, global_pool, pool_nodes, current_index, stats>>
    /\ pool_lock' = 0
    /\ get_pool_calls' = [get_pool_calls EXCEPT ![t].pc = "return"]
    /\ UNCHANGED requests_in_flight
    /\ PoolFrame

\* "return _global_pool"
GetPoolReturn(t) ==
    /\ get_pool_calls[t].pc = "return"
    /\ get_pool_calls' = [get_pool_calls EXCEPT ![t] =
          [@ EXCEPT !.pc = "done", !.ret = global_pool]]
    /\ UNCHANGED <<global_pool, pool_lock, pools_constructed, pool_nodes, current_index,
                   stats, requests_in_flight>>
    /\ PoolFrame

NextGetPool ==
    \/ \E t \in Callers : GetPoolCheck(t)
    \/ \E t \in Callers : GetPoolAcquire(t)
    \/ \E t \in Callers, discovered \in DiscoveredLists : GetPoolLocked(t, discovered)
    \/ \E t \in Callers : GetPoolReturn(t)

SpecGetPool == Init /\ [][NextGetPool]_vars

\* C31: however the first calls of get_pool interleave, at most one OllamaPool
\* is constructed, none before the first call, and every caller that has
\* returned holds that one instance.
C31_OnePoolForAllCallers ==
    /\ pools_constructed <= 1
    /\ (\A t \in Callers : get_pool_calls[t].pc = "start") => pools_constructed = 0
    /\ \A t \in Callers :
          get_pool_calls[t].pc = "done" =>
              /\ pools_constructed = 1
              /\ get_pool_calls[t].ret = 1
              /\ global_pool = 1

\* All callers have returned, and at least two of them found no pool at their
\* first look.
C31_ConcurrentFirstCalls ==
    /\ \A t \in Callers : get_pool_calls[t].pc = "done"
    /\ Cardinality({t \in Callers : get_pool_calls[t].saw = 0}) >= 2

(***************************************************************************)
(* OllamaPool: requests of concurrent threads on one pool. _make_request    *)
(* counts the request, then asks _select_node for a node once per node of   *)
(* the pool until one answers 200.                                          *)
(***************************************************************************)
NumRequesters == 2

Requesters == 1..NumRequesters

\* The requests the model follows on one pool
MaxPoolRequests == 2

\* What requests.post and response.json() can do with one node: answer 200 with
\* a JSON body, answer 200 with a body that is no JSON, answer another status,
\* or raise (connection refused, timeout).
PostOutcomes == {"ok", "undecodable", "http_error", "exception"}

InFlight(t) == requests_in_flight[t].pc \in {"select", "post"}

\* stats['nodes_used'].get(node_key, 0) + 1
NodeUsed(used, node) ==
    [k \in DOMAIN used \cup {node} |->
        IF k = node THEN (IF node \in DOMAIN used THEN used[node] ELSE 0) + 1 ELSE used[k]]

\* OllamaPool(nodes): the nodes given, or the discovered ones if none is given
OllamaPoolInit(given, discovered) ==
    /\ pools_constructed = 0
    /\ pools_constructed' = 1
    /\ pool_nodes' = IF given = <<>> THEN discovered ELSE given
    /\ current_index' = 0
    /\ stats' = NewStats
    /\ UNCHANGED <<global_pool, pool_lock, get_pool_calls, requests_in_flight>>
    /\ PoolFrame

\* _make_request up to the loop: the request is counted, and range(len(self.nodes))
\* fixes the number of attempts; with no node the loop is skipped.
MakeRequest(t) ==
    /\ pools_constructed > 0
    /\ ~InFlight(t)
    /\ stats.total_requests < MaxPoolRequests
    /\ IF pool_nodes = <<>>
       THEN /\ stats' = [stats EXCEPT !.total_requests = @ + 1, !.failed_requests = @ + 1]
            /\ requests_in_flight' = [requests_in_flight EXCEPT ![t] =
                  [NoRequest EXCEPT !.pc = "all_failed"]]
       ELSE /\ stats' = [stats EXCEPT !.total_requests = @ + 1]
            /\ requests_in_flight' = [requests_in_flight EXCEPT ![t] =
                  [NoRequest EXCEPT !.pc = "select", !.n = Len(pool_nodes)]]
    /\ UNCHANGED <<global_pool, pool_lock, pools_constructed, get_pool_calls, pool_nodes,
                   current_index>>
    /\ PoolFrame

\* node = self._select_node(): round robin over the shared index, RuntimeError
\* out of _make_request when the pool has no node
SelectNode(t) ==
    /\ requests_in_flight[t].pc = "select"
    /\ IF pool_nodes = <<>>
       THEN /\ requests_in_flight' = [requests_in_flight EXCEPT ![t].pc = "no_nodes"]
            /\ UNCHANGED current_index
       ELSE /\ requests_in_flight' = [requests_in_flight EXCEPT ![t] =
                  [@ EXCEPT !.pc = "post",
                            !.node = pool_nodes[(current_index % Len(pool_nodes)) + 1]]]
            /\ current_index' = current_index + 1
    /\ UNCHANGED <<global_pool, pool_lock, pools_constructed, get_pool_calls, pool_nodes,
                   stats>>
    /\ PoolFrame

\* requests.post to the selected node and what follows it in the loop body; after
\* the last attempt the request is counted as failed and RuntimeError is raised.
Post(t, outcome) ==
    LET r == requests_in_flight[t]
        counted == IF outcome \in {"ok", "undecodable"}
                   THEN [stats EXCEPT !.successful_requests = @ + 1,
                                      !.nodes_used = NodeUsed(@, r.node)]
                   ELSE stats
    IN
    /\ r.pc = "post"
    /\ IF outcome = "ok"
       THEN /\ stats' = counted
            /\ requests_in_flight' = [requests_in_flight EXCEPT ![t] =
                  [@ EXCEPT !.pc = "returned", !.tried = Append(@, r.node)]]
       ELSE IF r.attempt + 1 < r.n
            THEN /\ stats' = counted
                 /\ requests_in_flight' = [requests_in_flight EXCEPT ![t] =
                       [@ EXCEPT !.pc = "select", !.attempt = @ + 1,
                                 !.tried = Append(@, r.node)]]
            ELSE /\ stats' = [counted EXCEPT !.failed_requests = @ + 1]
                 /\ requests_in_flight' = [requests_in_flight EXCEPT ![t] =
                       [@ EXCEPT !.pc = "all_failed", !.attempt = @ + 1,
                                 !.tried = Append(@, r.node)]]
    /\ UNCHANGED <<global_pool, pool_lock, pools_constructed, get_pool_calls, pool_nodes,
                   current_index>>
    /\ PoolFrame

\* OllamaPool.add_node(host)
PoolAddNode(host) ==
    /\ pools_constructed > 0
    /\ pool_nodes' = IF host \in Range(pool_nodes) THEN pool_nodes
                     ELSE Append(pool_nodes, host)
    /\ UNCHANGED <<global_pool, pool_lock, pools_constructed, get_pool_calls,
                   current_index, stats, requests_in_flight>>
    /\ PoolFrame

\* OllamaPool.remove_node(host)
PoolRemoveNode(host) ==
    /\ pools_constructed > 0
    /\ pool_nodes' = SelectSeq(pool_nodes, LAMBDA h : h # host)
    /\ UNCHANGED <<global_pool, pool_lock, pools_constructed, get_pool_calls,
                   current_index, stats, requests_in_flight>>
    /\ PoolFrame

\* Requests on a pool whose nodes do not change
NextPoolRequests ==
    \/ \E given \in DiscoveredLists \ {<<>>}, discovered \in DiscoveredLists :
          OllamaPoolInit(given, discovered)
    \/ \E t \in Requesters : MakeRequest(t)
    \/ \E t \in Requesters : SelectNode(t)
    \/ \E t \in Requesters, outcome \in PostOutcomes : Post(t, outcome)

SpecPoolRequests == Init /\ [][NextPoolRequests]_vars

\* Requests on a pool that nodes join and leave
NextPool ==
    \/ \E given, discovered \in DiscoveredLists : OllamaPoolInit(given, discovered)
    \/ \E t \in Requesters : MakeRequest(t)
    \/ \E t \in Requesters : SelectNode(t)
    \/ \E t \in Requesters, outcome \in PostOutcomes : Post(t, outcome)
    \/ \E host \in PoolHosts : PoolAddNode(host)
    \/ \E host \in PoolHosts : PoolRemoveNode(host)

SpecPool == Init /\ [][NextPool]_vars

\* C33: a request that ended with the all-nodes-failed error has been sent to
\* every node of the pool, and no request is sent to one node twice.
C33_AllNodesTriedOnceEach ==
    \A t \in Requesters :
        LET tried == requests_in_flight[t].tried IN
        /\ requests_in_flight[t].pc = "all_failed" => Range(pool_nodes) \subseteq Range(tried)
        /\ \A i, j \in DOMAIN tried : i # j => tried[i] # tried[j]

\* C37: whenever no request is in flight, every request made has been counted
\* as one success or as one failure.
C37_EveryRequestCountedOnce ==
    (\A t \in Requesters : ~InFlight(t)) =>
        stats.total_requests = stats.successful_requests + stats.failed_requests

(***************************************************************************)
(* json_pipeline: standardize_to_json and validate_json_output.  A raw      *)
(* output is a sequence of pieces of text:                                  *)
(*   "{" "}"  braces;  "m"  member text of an object without braces (keys,  *)
(*   values, commas);  "mq" the same written with single quotes;  "arr" an  *)
(*   array without brackets or braces inside;  "p" prose;  "w" whitespace;  *)
(*   "fj" the fence ```json;  "f" the fence ```.                            *)
(***************************************************************************)
AgentNames == {"Researcher", "Critic", "Editor"}

\* JSON objects as text: {}, { }, a flat object, an object in an object, three
\* levels, two objects side by side in an object, an empty object in an object,
\* and a flat object written with single quotes.
ObjectTexts ==
    {<<"{", "}">>,
     <<"{", "w", "}">>,
     <<"{", "m", "}">>,
     <<"{", "m", "{", "m", "}", "}">>,
     <<"{", "m", "{", "m", "{", "m", "}", "}", "}">>,
     <<"{", "m", "{", "m", "}", "m", "{", "m", "}", "}">>,
     <<"{", "m", "{", "}", "}">>,
     <<"{", "mq", "}">>}

\* The raw outputs of an agent: an object alone, between whitespace, in a fenced
\* block, after or before prose; and outputs that hold no object.
PipelineRawOutputs ==
    UNION {{o, <<"w">> \o o \o <<"w">>, <<"fj", "w">> \o o \o <<"w", "f">>,
            <<"f">> \o o \o <<"f">>, <<"p">> \o o, o \o <<"p">>} : o \in ObjectTexts}
    \cup {<<>>, <<"p">>, <<"w", "p", "w">>, <<"arr">>, <<"p", "arr">>,
          <<"p", "{", "p", "}">>}

\* str.strip()
RECURSIVE LStrip(_)
LStrip(text) == IF text # <<>> /\ Head(text) = "w" THEN LStrip(Tail(text)) ELSE text

RECURSIVE RStrip(_)
RStrip(text) ==
    IF text # <<>> /\ text[Len(text)] = "w" THEN RStrip(SubSeq(text, 1, Len(text) - 1))
    ELSE text

Strip(text) == LStrip(RStrip(text))

\* The text without its whitespace: what a JSON value is told by
Unspaced(text) == SelectSeq(text, LAMBDA c : c # "w")

\* The nesting depth after every piece of the text
RECURSIVE Depth(_, _)
Depth(text, i) ==
    IF i = 0 THEN 0
    ELSE Depth(text, i - 1)
         + (IF text[i] = "{" THEN 1 ELSE IF text[i] = "}" THEN -1 ELSE 0)

\* Whether the text, whitespace aside, is one JSON object: braces and member
\* text only, the braces balanced and closed at the end only, every inner
\* object the value of a member.
IsJsonObject(text) ==
    LET u == Unspaced(text) IN
    /\ Len(u) >= 2
    /\ u[1] = "{"
    /\ Range(u) \subseteq {"{", "}", "m"}
    /\ Depth(u, Len(u)) = 0
    /\ \A i \in 1..(Len(u) - 1) : Depth(u, i) > 0
    /\ \A i \in 2..Len(u) : u[i] = "{" => u[i - 1] = "m"
    /\ \A i \in 1..(Len(u) - 1) : ~(u[i] = "m" /\ u[i + 1] = "m")

NoJson == [kind |-> "none", value |-> <<>>]

\* json.loads(text): an object, an array, or NoJson where it raises
PipelineJsonLoads(text) ==
    IF IsJsonObject(text) THEN [kind |-> "dict", value |-> Unspaced(text)]
    ELSE IF Unspaced(text) = <<"arr">> THEN [kind |-> "array", value |-> <<"arr">>]
    ELSE NoJson

\* fix_malformed_json: single quotes become double quotes (the other repairs
\* change nothing in the texts above)
FixMalformedJson(text) == [i \in DOMAIN text |-> IF text[i] = "mq" THEN "m" ELSE text[i]]

\* try json.loads(s), except try json.loads(fix_malformed_json(s))
LoadsOrFix(text) ==
    IF PipelineJsonLoads(text) # NoJson THEN PipelineJsonLoads(text)
    ELSE PipelineJsonLoads(FixMalformedJson(text))

\* The position of the first brace after position i, 0 if there is none
NextBrace(text, i) ==
    LET later == {j \in (i + 1)..Len(text) : text[j] \in {"{", "}"}} IN
    IF later = {} THEN 0 ELSE CHOOSE j \in later : \A k \in later : j <= k

\* The least element of a set of positions
Least(S) == CHOOSE j \in S : \A k \in S : j <= k

\* The position after the whitespace that follows position i
RECURSIVE SkipSpace(_, _)
SkipSpace(text, i) ==
    IF i + 1 <= Len(text) /\ text[i + 1] = "w" THEN SkipSpace(text, i + 1) ELSE i + 1

\* group(1) of the first match of fence \s* ( open .*? close ) \s* ``` , or <<>>:
\* fence is "fj" or "f", open/close are the braces or an array.
FencedGroup(text, fence, open, close) ==
    LET Ends(i) ==
            {b \in SkipSpace(text, i)..Len(text) :
                /\ text[b] = close
                /\ (open = close \/ b > SkipSpace(text, i))
                /\ SkipSpace(text, b) <= Len(text)
                /\ text[SkipSpace(text, b)] \in {"f", "fj"}}
        starts == {i \in DOMAIN text :
                      /\ text[i] = fence
                      /\ SkipSpace(text, i) <= Len(text)
                      /\ text[SkipSpace(text, i)] = open
                      /\ Ends(i) # {}}
    IN  IF starts = {} THEN <<>>
        ELSE SubSeq(text, SkipSpace(text, Least(starts)), Least(Ends(Least(starts))))

\* group(1) of the first match of \{[^{}]*\{[^{}]*\}[^{}]*\} , or <<>>
NestedObjectGroup(text) ==
    LET End(i) == NextBrace(text, NextBrace(text, NextBrace(text, i)))
        starts == {i \in DOMAIN text :
                      /\ text[i] = "{"
                      /\ NextBrace(text, i) # 0 /\ text[NextBrace(text, i)] = "{"
                      /\ NextBrace(text, NextBrace(text, i)) # 0
                      /\ text[NextBrace(text, NextBrace(text, i))] = "}"
                      /\ End(i) # 0 /\ text[End(i)] = "}"}
    IN  IF starts = {} THEN <<>> ELSE SubSeq(text, Least(starts), End(Least(starts)))

\* group(1) of the first match of \{[^{}]+\} , or <<>>
SimpleObjectGroup(text) ==
    LET starts == {i \in DOMAIN text :
                      /\ text[i] = "{"
                      /\ NextBrace(text, i) > i + 1
                      /\ text[NextBrace(text, i)] = "}"}
    IN  IF starts = {} THEN <<>>
        ELSE SubSeq(text, Least(starts), NextBrace(text, Least(starts)))

\* group(1) of the first match of \[[^\[\]]+\] , or <<>>
SimpleArrayGroup(text) == IF "arr" \in Range(text) THEN <<"arr">> ELSE <<>>

\* Where the match of \{[^{}]*(?:\{[^{}]*\}[^{}]*)*\} that starts at i ends, from
\* the brace at j on; 0 if there is no match
RECURSIVE JsonLikeEnd(_, _)
JsonLikeEnd(text, j) ==
    LET b == NextBrace(text, j) IN
    IF b = 0 THEN 0
    ELSE IF text[b] = "}" THEN b
    ELSE IF NextBrace(text, b) # 0 /\ text[NextBrace(text, b)] = "}"
         THEN JsonLikeEnd(text, NextBrace(text, b))
         ELSE 0

\* group(0) of the first match of the last pattern, or <<>>
JsonLikeGroup(text) ==
    LET starts == {i \in DOMAIN text : text[i] = "{" /\ JsonLikeEnd(text, i) # 0} IN
    IF starts = {} THEN <<>>
    ELSE SubSeq(text, Least(starts), JsonLikeEnd(text, Least(starts)))

\* The groups of json_block_patterns, in the order of the list (the pattern of
\* nested arrays matches none of the texts above)
PatternGroups(text) ==
    <<FencedGroup(text, "fj", "{", "}"), FencedGroup(text, "fj", "arr", "arr"),
      FencedGroup(text, "f", "{", "}"), FencedGroup(text, "f", "arr", "arr"),
      NestedObjectGroup(text), <<>>, SimpleObjectGroup(text), SimpleArrayGroup(text)>>

\* extract_json_from_text
PipelineExtractJson(raw) ==
    LET text == Strip(raw)
        groups == PatternGroups(text)
        hits == {k \in DOMAIN groups : groups[k] # <<>> /\ LoadsOrFix(groups[k]) # NoJson}
    IN  IF hits # {} THEN LoadsOrFix(groups[Least(hits)])
        ELSE IF LoadsOrFix(text) # NoJson THEN LoadsOrFix(text)
        ELSE IF JsonLikeGroup(text) # <<>> THEN LoadsOrFix(JsonLikeGroup(text))
        ELSE NoJson

\* Python's truth value of what extract_json_from_text returned
PipelineTruthy(j) == j.kind = "array" \/ (j.kind = "dict" /\ j.value # <<"{", "}">>)

\* standardize_to_json(agent_name, raw_output): data is the object found, or the
\* object {"content": ...} of the text form
StandardizeToJson(agent_name, raw) ==
    LET extracted_json == PipelineExtractJson(raw) IN
    IF PipelineTruthy(extracted_json) /\ extracted_json.kind = "dict"
    THEN [agent |-> agent_name, status |-> "success", format |-> "json",
          data |-> extracted_json.value, content |-> <<>>]
    ELSE [agent |-> agent_name, status |-> "success", format |-> "text",
          data |-> <<"{", "content", "}">>, content |-> Strip(raw)]

\* validate_json_output: the four fields are there and data is an object
ValidateJsonOutput(json_output) ==
    /\ {"agent", "status", "format", "data"} \subseteq DOMAIN json_output
    /\ Len(json_output.data) >= 2
    /\ json_output.data[1] = "{"

PipelineFrame ==
    /\ UNCHANGED <<registryVars, agentVars, threadVars, trustVars, parallelVars,
                   narrativeVars, longformVars, hybridVars, clusterVars, latencyVars,
                   eventVars, poolVars, attributionVars, lockVars>>

Standardize(agent_name, raw) ==
    /\ sj_agent' = agent_name
    /\ sj_raw' = raw
    /\ sj_output' = StandardizeToJson(agent_name, raw)
    /\ PipelineFrame

NextPipeline ==
    \E agent_name \in AgentNames, raw \in PipelineRawOutputs :
        Standardize(agent_name, raw)

SpecPipeline == Init /\ [][NextPipeline]_vars

\* C32: what standardize_to_json returns passes validate_json_output; for a raw
\* output that is a JSON object it has format json and the parsed object as
\* data; for a raw output that holds no object it has format text and the
\* trimmed raw output as data.content.
C32_StandardizedOutput ==
    sj_agent # "none" =>
        /\ ValidateJsonOutput(sj_output)
        /\ sj_output.agent = sj_agent
        /\ IsJsonObject(sj_raw) =>
              sj_output.format = "json" /\ sj_output.data = Unspaced(sj_raw)
        /\ "{" \notin Range(sj_raw) =>
              sj_output.format = "text" /\ sj_output.content = Strip(sj_raw)

(***************************************************************************)
(* DistributedOrchestrator.run in its sequential branch: the agents are     *)
(* given the load balancer when use_sollol is set, then one of the four     *)
(* execution modes assigns them nodes, runs them and reports the nodes in   *)
(* metrics['node_attribution'].  Every agent's request is taken to complete.*)
(***************************************************************************)
\* agents = [Researcher(...), Critic(...), Editor(...)]
AgentList == <<"Researcher", "Critic", "Editor">>

ExecutionModes == {"single_node", "parallel_same_node", "parallel_multi_node", "gpu_routing"}

\* call_ollama: the node the request is posted to.  An agent that was given the
\* load balancer asks route_request and posts to the node of the decision; it
\* posts to its own ollama_url when routing raised or no balancer was given.
CallOllamaUrl(own_url, injected, keys, m, selected_host) ==
    IF injected /\ RouteRequest(keys, m, selected_host).kind # "raised"
    THEN NodeUrl(RouteRequest(keys, m, selected_host).node)
    ELSE own_url

\* registry.get_gpu_nodes()
GetGpuNodes(keys, m, gpu) == SelectSeq(keys, LAMBDA u : m[u].is_healthy /\ u \in gpu)

\* The nodes the mode assigns to the agents, in the order of the agents; <<>>
\* where the mode raises (no node, or no get_nodes on the balancer).
AssignedNodes(mode, use_sollol, keys, m, gpu) ==
    LET one == GetNodeResult(keys, m, FALSE, NoUrl)
        many == GetNodesResult(use_sollol, keys, m)
        spread(ns) == [i \in DOMAIN AgentList |-> ns[((i - 1) % Len(ns)) + 1]]
    IN  CASE mode \in {"single_node", "parallel_same_node"} ->
                IF one.kind = "node" THEN [i \in DOMAIN AgentList |-> one.node] ELSE <<>>
          [] mode = "gpu_routing" /\ GetGpuNodes(keys, m, gpu) # <<>> ->
                spread(GetGpuNodes(keys, m, gpu))
          [] OTHER ->
                IF many.kind = "nodes" /\ many.nodes # <<>> THEN spread(many.nodes) ELSE <<>>

\* agent.ollama_url when the agent runs: the URL of the assigned node, except in
\* single-node mode with use_sollol, which leaves the agents their default URL
OwnUrl(mode, use_sollol, node) ==
    IF mode = "single_node" /\ use_sollol THEN DefaultUrl ELSE NodeUrl(node)

AttributionFrame ==
    /\ UNCHANGED <<registryVars, agentVars, threadVars, trustVars, parallelVars,
                   narrativeVars, longformVars, hybridVars, clusterVars, latencyVars,
                   eventVars, poolVars, pipelineVars, lockVars>>

\* run(...) with the strategy mode, on a registry whose nodes gpu have
\* capabilities.has_gpu set;
\* routes[i] is what the router selects for the request of agent i.
ExecuteMode(mode, use_sollol, gpu, routes) ==
    LET assigned == AssignedNodes(mode, use_sollol, nodes, metrics, gpu) IN
    /\ exec_mode' = mode
    /\ exec_use_sollol' = use_sollol
    /\ gpu_nodes' = GetGpuNodes(nodes, metrics, gpu)
    /\ node_attribution' = [i \in DOMAIN assigned |-> NodeUrl(assigned[i])]
    /\ agent_sent_to' =
          [i \in DOMAIN assigned |->
              CallOllamaUrl(OwnUrl(mode, use_sollol, assigned[i]), use_sollol,
                            nodes, metrics, routes[i])]
    /\ AttributionFrame

NextAttribution ==
    \/ \E mode \in ExecutionModes, use_sollol \in BOOLEAN, gpu \in SUBSET Range(nodes),
          routes \in [DOMAIN AgentList -> SelectedHosts] :
          ExecuteMode(mode, use_sollol, gpu, routes)
    \/ \E u \in Range(nodes), up \in BOOLEAN : HealthCheck(u, up)

SpecAttribution == BalancerInit /\ [][NextAttribution]_vars

\* C34: the node reported for an agent in node_attribution is the node its
\* request was sent to; so in parallel-same-node mode every agent uses the one
\* selected node, and in GPU-routing mode with a GPU node available every agent
\* uses a GPU node.
C34_AttributionNamesTheNodeUsed ==
    /\ \A i \in DOMAIN node_attribution : node_attribution[i] = agent_sent_to[i]
    /\ exec_mode = "parallel_same_node" =>
          \A i, j \in DOMAIN agent_sent_to : agent_sent_to[i] = agent_sent_to[j]
    /\ (exec_mode = "gpu_routing" /\ gpu_nodes # <<>>) =>
          \A i \in DOMAIN agent_sent_to :
              \E u \in Range(gpu_nodes) : NodeUrl(u) = agent_sent_to[i]

\* The same with the balancer not given to the agents (use_sollol off)
AttributionRightWithoutSollol ==
    ~exec_use_sollol => C34_AttributionNamesTheNodeUsed

(***************************************************************************)
(* NodeRegistry._lock: which calls hold it, and over what.  A call that is  *)
(* at "io" is inside blocking network I/O: the name resolution of the       *)
(* duplicate check, the health check, the capability probe, the TCP connect.*)
(***************************************************************************)
LockFrame ==
    /\ UNCHANGED <<agentVars, threadVars, trustVars, parallelVars, narrativeVars,
                   longformVars, hybridVars, clusterVars, latencyVars, eventVars,
                   poolVars, pipelineVars, attributionVars>>

\* add_node(url) enters "with self._lock:"; a URL that is registered is answered
\* at once, for any other the duplicate check and the health check follow
\* inside the with block.
AddNodeEnter(t, url) ==
    /\ registry_calls[t] = NoCall
    /\ registry_lock = 0
    /\ IF url \in Range(nodes)
       THEN /\ last_result' = [kind |-> "existing", url |-> url]
            /\ UNCHANGED <<registry_lock, registry_calls>>
       ELSE /\ registry_lock' = t
            /\ registry_calls' = [registry_calls EXCEPT ![t] =
                  [op |-> "add_node", pc |-> "io", url |-> url]]
            /\ UNCHANGED last_result
    /\ UNCHANGED <<nodes, ip_cache, metrics, scan, load_queue>>
    /\ LockFrame

\* The I/O of add_node is over: the node is stored or not, the with block ends.
AddNodeLeave(t, up) ==
    LET e == AddNodeEffect(registry_calls[t].url, up, nodes, ip_cache, metrics) IN
    /\ registry_calls[t].op = "add_node"
    /\ registry_calls[t].pc = "io"
    /\ nodes' = e.nodes
    /\ ip_cache' = e.cache
    /\ metrics' = e.healthy
    /\ last_result' = e.result
    /\ registry_lock' = 0
    /\ registry_calls' = [registry_calls EXCEPT ![t] = NoCall]
    /\ UNCHANGED <<scan, load_queue>>
    /\ LockFrame

\* remove_node(url): the whole call is its with block
RemoveNodeLocked(url) ==
    /\ registry_lock = 0
    /\ RemoveNode(url)

\* _probe_ip(ip) begins: TCP connect, health check and capability probe, all
\* before the lock is asked for
ProbeIpEnter(t, ip) ==
    /\ registry_calls[t] = NoCall
    /\ registry_calls' = [registry_calls EXCEPT ![t] =
          [op |-> "_probe_ip", pc |-> "io", url |-> ProbeUrl(ip)]]
    /\ UNCHANGED <<registryVars, registry_lock>>
    /\ LockFrame

\* _probe_ip after its I/O: a server that answered is inserted under the lock
ProbeIpLeave(t, up) ==
    LET url == registry_calls[t].url IN
    /\ registry_calls[t].op = "_probe_ip"
    /\ registry_calls[t].pc = "io"
    /\ up => registry_lock = 0
    /\ IF up /\ ProbeInserts(url, nodes)
       THEN /\ nodes' = Append(nodes, url)
            /\ metrics' = WithNode(metrics, url, NewMetrics)
       ELSE UNCHANGED <<nodes, metrics>>
    /\ last_result' = [kind |-> IF up THEN "discovered" ELSE "no_server", url |-> url]
    /\ registry_calls' = [registry_calls EXCEPT ![t] = NoCall]
    /\ UNCHANGED <<ip_cache, scan, load_queue, registry_lock>>
    /\ LockFrame

NextRegistryLock ==
    \/ \E t \in RegistryThreads, url \in {UrlLocalhost, UrlLoopback, UrlB} : AddNodeEnter(t, url)
    \/ \E t \in RegistryThreads, up \in BOOLEAN : AddNodeLeave(t, up)
    \/ \E url \in {UrlLocalhost, UrlLoopback, UrlB} : RemoveNodeLocked(url)
    \/ \E t \in RegistryThreads, ip \in ParseCidr("127.0.0.0/30") : ProbeIpEnter(t, ip)
    \/ \E t \in RegistryThreads, up \in BOOLEAN : ProbeIpLeave(t, up)

SpecRegistryLock == Init /\ [][NextRegistryLock]_vars

\* C35: no thread holds the registry's lock while it is inside blocking network
\* I/O, so that remove_node and the insert of a discovery never wait for the
\* probe of another thread.
C35_NoNetworkIoUnderLock ==
    \A t \in RegistryThreads : registry_calls[t].pc = "io" => registry_lock # t

\* Discovery keeps the lock out of its I/O.
ProbeIpHoldsNoLock ==
    \A t \in RegistryThreads :
        (registry_calls[t].pc = "io" /\ registry_calls[t].op = "_probe_ip") =>
            registry_lock # t

(***************************************************************************)
(* Clusters and the removal of nodes: remove_node beside create_cluster.    *)
(***************************************************************************)
NextClusterMembers ==
    \/ \E name \in ClusterNames, node_urls \in NodeUrlLists : CreateCluster(name, node_urls)
    \/ \E url \in {UrlLocalhost, UrlB, UrlLoopback} : RemoveNode(url)
    \/ \E u \in Range(nodes), up \in BOOLEAN : HealthCheck(u, up)

SpecClusterMembers == BalancerInit /\ [][NextClusterMembers]_vars

\* C36: every node that is a member of a registered cluster is registered in
\* the registry; once remove_node(url) has succeeded no registered cluster
\* refers to url.
C36_ClusterMembersAreRegistered ==
    \A name \in DOMAIN clusters : Range(clusters[name]) \subseteq Range(nodes)

\* create_cluster by itself stores registered nodes only.
CreatedFromRegisteredNodes ==
    [][\A name \in DOMAIN clusters' :
          (name \notin DOMAIN clusters \/ clusters'[name] # clusters[name]) =>
              Range(clusters'[name]) \subseteq Range(nodes')]_vars

NextAddNode == \E url \in AddUrls, up \in BOOLEAN : AddNode(url, up)

SpecAddNode == Init /\ [][NextAddNode]_vars

NextRegistry ==
    \/ \E url \in Urls, up \in BOOLEAN : AddNode(url, up)
    \/ \E url \in Urls : RemoveNode(url)
    \/ \E cidr \in Cidrs : DiscoverNodes(cidr)
    \/ \E ip \in scan, up \in BOOLEAN : ProbeIp(ip, up)
    \/ \E file \in ConfigFiles : LoadConfig(file)
    \/ \E up \in BOOLEAN : LoadConfigStep(up)

SpecRegistry == Init /\ [][NextRegistry]_vars

\* The address an HTTP request to the node's URL connects to (requests resolves
\* the host of the URL); the URL itself when no request can be made.
ConnectIp(url) ==
    IF CanReach(url) THEN <<DnsTable[RStripSlash(url)[3]]>> ELSE url

(***************************************************************************)
(* C1: after any sequence of add_node calls, no two nodes of the registry  *)
(* have URLs that resolve to the same IP address.                          *)
(***************************************************************************)
C1_NoTwoNodesSameIp ==
    \A i, j \in 1..Len(nodes) :
        i # j => ConnectIp(nodes[i]) # ConnectIp(nodes[j])

(***************************************************************************)
(* C2: under any interleaving of add_node, discovery, remove_node and      *)
(* load_config, the registry never holds two entries whose URLs resolve    *)
(* to the same IP.  Stated with the registry's own resolution              *)
(* (_resolve_host_ip), the reading most favourable to the code.            *)
(***************************************************************************)
C2_RegistryNeverHoldsSameIpTwice ==
    Cardinality({ResolveHostIp(u, ip_cache).ip : u \in Range(nodes)}) = Len(nodes)

(***************************************************************************)
(* C24: add_node with a URL that is that of a registered node, or resolves *)
(* to the IP of one, leaves the registry as it is: a call that changes the *)
(* registry appends a URL whose IP no registered node had.                 *)
(***************************************************************************)
C24_AddNodeOfKnownIpChangesNothing ==
    [][nodes' # nodes =>
          /\ nodes' = Append(nodes, last_result'.url)
          /\ last_result'.kind = "added"
          /\ \A u \in Range(nodes) :
                u # last_result'.url /\ ConnectIp(u) # ConnectIp(last_result'.url)]_vars

(***************************************************************************)
(* C25: an add_node call that fails as unreachable leaves the membership   *)
(* of the registry exactly as it was.                                      *)
(***************************************************************************)
C25_UnreachableLeavesRegistry ==
    [][(last_result'.kind = "unreachable" /\ last_result'.url \notin Range(nodes)) =>
          nodes' = nodes]_vars

\* The registry holds a node and the last call failed as unreachable.
C25_FailedProbeOnPopulatedRegistry ==
    /\ last_result.kind = "unreachable"
    /\ nodes # <<>>
    /\ last_result.url \notin Range(nodes)

=============================================================================
